---- MODULE Spec2Model ----
(***************************************************************************)
(* A model of the EigenScript native transformer engine                    *)
(* (src/native/bootstrap/eigenscript.c): the weight store                  *)
(* (load_model_weights / save_model_weights), the training step            *)
(* (native_train_step) and the sampler (generate_response).                *)
(*                                                                         *)
(* Abstractions, all stated where they are made:                           *)
(*  - a double is a pair <<kind, n>>; see the section on doubles;          *)
(*  - a tensor is the flat sequence of its elements (row structure of the  *)
(*    2-D arrays is not kept), with the allocation state of its pointer;   *)
(*  - a model file is the sequence of its top-level "key": value entries;  *)
(*  - the numeric forward/backward pass of one training step is an input   *)
(*    of the step (the loss and gradient accumulators it produces), the    *)
(*    guards and the update that follow it are modelled as written.        *)
(***************************************************************************)
EXTENDS Integers, Sequences, FiniteSets, TLC

VARIABLES
    g_model,            \* TransformerModel g_model (eigenscript.c:46)
    g_model_age,        \* int g_model_age (eigenscript.c:2218)
    g_training_samples, \* int g_training_samples (eigenscript.c:2219)
    disk,               \* the files the engine reads and writes, by path
    status,             \* "up", or how the process ended: "crashed", "hung", "ub"
    last,               \* the last engine call: its arguments and what it returned
    origin,             \* ghost: the model that save_model_weights last serialized
    gen,                \* the locals of one generate_response call
    g_replay_buffer,    \* ReplayEntry g_replay_buffer[32] (eigenscript.c:3081)
    g_replay_count,     \* int g_replay_count (eigenscript.c:3082)
    g_conversation_count, \* int g_conversation_count (eigenscript.c:2909)
    g_db_conn,          \* PGconn *g_db_conn: TRUE when the connection is up (eigenscript.c:47)
    chat,               \* the locals of one builtin_eigen_hybrid_chat call
    garble,             \* one is_garble_response call: its text and its result
    attn,               \* one ne_fused_attention_forward_buf call: scores and probabilities
    train,              \* the locals and the TrainingCache of one native_train_step call
    eigen,              \* one EigenValue: its history ring (eigenvalue.c)
    serve               \* the main thread, the health thread and their sockets

\* The model, its counters, the files and the sampler.
engineVars == <<g_model, g_model_age, g_training_samples, disk, status, last, origin, gen>>

\* What the chat handler keeps between requests, and its locals.
chatVars == <<g_replay_buffer, g_replay_count, g_conversation_count, g_db_conn, chat>>

\* The calls of the two pure kernels that are checked on their own.
kernelVars == <<garble, attn, train, eigen, serve>>

\* The parts followed on their own: a training call position by position,
\* an EigenValue, and the threads of the server's startup.
sideVars == <<train, eigen, serve>>

vars == <<g_model, g_model_age, g_training_samples, disk, status, last, origin, gen,
          chatVars, kernelVars >>

(***************************************************************************)
(* Doubles.  <<"s", n>> is the double with the integer value n (|n| small: *)
(* printed exactly by %.17g); <<"b", n>> is the double 10^17 + 16*n, one   *)
(* of the doubles of the binade [2^56, 2^57), where neighbouring doubles   *)
(* are 16 apart and a value >= 10^17 has 18 decimal digits, one more than  *)
(* %.17g prints; <<"h", s>> is the double nearest to s * 10^200, which     *)
(* every conversion of 16 digits or more reads back; <<"nan", 0>> is a     *)
(* NaN and <<"inf", s>> is s * infinity.                                   *)
(***************************************************************************)
NaN == <<"nan", 0>>

PInf == <<"inf", 1>>

NInf == <<"inf", -1>>

Zero == <<"s", 0>>

isnan(x) == x[1] = "nan"

isinf(x) == x[1] = "inf"

IsBad(x) == isnan(x) \/ isinf(x)

\* The integer nearest to num/den (den > 0), ties to the even one: the
\* rounding of printf's decimal conversion and of strtod's binary one.
RoundHalfEven(num, den) ==
    LET q == num \div den
        r == num % den
    IN  IF 2 * r < den THEN q
        ELSE IF 2 * r > den THEN q + 1
        ELSE IF q % 2 = 0 THEN q ELSE q + 1

\* Spacing of the doubles in [2^56, 2^57).
Ulp == 2 ^ 4

\* The number of significant digits in the "%.17g" conversions of save.
PRECISION == 17

\* printf("%.<digits>g") of a double, as a number token of the file.
\* <<"b", off>> is the decimal numeral of 10^17 + off.
FormatG(x, digits) ==
    CASE x[1] = "s" -> <<"s", x[2]>>
      [] x[1] = "b" ->
            LET v  == Ulp * x[2]
                nd == IF x[2] >= 0 THEN 18 ELSE 17
                u  == IF nd > digits THEN 10 ^ (nd - digits) ELSE 1
            IN  <<"b", u * RoundHalfEven(v, u)>>
      [] x[1] = "nan" -> <<"nan", 0>>
      [] x[1] = "inf" -> <<"inf", x[2]>>
      [] OTHER -> x

FormatG16(x) == FormatG(x, 16)

FormatG17(x) == FormatG(x, PRECISION)

\* strtod at a number token; at anything else (the "]" that ends a short
\* array) strtod converts nothing and returns 0.
json_parse_number(tok) ==
    CASE tok[1] = "s" -> <<"s", tok[2]>>
      [] tok[1] = "b" -> <<"b", RoundHalfEven(tok[2], Ulp)>>
      [] tok[1] = "nan" -> NaN
      [] tok[1] = "inf" -> <<"inf", tok[2]>>
      [] tok[1] = "h" -> <<"h", tok[2]>>
      [] OTHER -> Zero

(***************************************************************************)
(* The model in memory (eigenscript.h:172-206).                            *)
(***************************************************************************)
MAX_LAYERS == 8

\* A double* field: NULL, or a calloc'ed block and its elements.
NULLT == [alloc |-> FALSE, v |-> <<>>]

Block(elems) == [alloc |-> TRUE, v |-> elems]

\* The ten tensors of a TransformerLayer, in the order save writes them.
LayerKeys == <<"w_q", "w_k", "w_v", "w_o", "w_ff1", "w_ff2",
               "ln1_gamma", "ln1_beta", "ln2_gamma", "ln2_beta">>

LayerKeySet == {LayerKeys[i] : i \in 1..Len(LayerKeys)}

\* The element count the code gives each layer tensor.
LayerTensorLen(key, dm, df) ==
    CASE key \in {"w_q", "w_k", "w_v", "w_o"} -> dm * dm
      [] key \in {"w_ff1", "w_ff2"} -> dm * df
      [] OTHER -> dm

ZeroConfig == [vocab_size |-> 0, d_model |-> 0, n_heads |-> 0,
               n_layers |-> 0, d_ff |-> 0, max_seq_len |-> 0]

NullLayer == [k \in LayerKeySet |-> NULLT]

\* TransformerModel g_model = {0};
ZeroModel == [config |-> ZeroConfig,
              token_embeddings |-> NULLT,
              output_proj |-> NULLT,
              layers |-> [l \in 0..(MAX_LAYERS - 1) |-> NullLayer],
              loaded |-> 0]

(***************************************************************************)
(* Model files.  A file that starts a JSON object is the sequence of its   *)
(* top-level entries; an entry is a key with a config object (its          *)
(* "name": number pairs), a tensor (its number tokens, row by row) or the  *)
(* layer list (a sequence of layer objects, each a sequence of tensors).   *)
(***************************************************************************)
Entry(key, cfg, toks, layers) ==
    [key |-> key, cfg |-> cfg, toks |-> toks, layers |-> layers]

\* for (i < len) out[i] = json_parse_number(p): a token where the file has
\* one, 0.0 where the array has ended.
json_parse_1d_array(toks, len) ==
    Block([i \in 1..len |-> IF i <= Len(toks) THEN json_parse_number(toks[i]) ELSE Zero])

json_parse_2d_array(toks, rows, cols) == json_parse_1d_array(toks, rows * cols)

\* Numbers of the array that the bounded loops did not consume: the parser
\* is left inside the array and never reaches its closing bracket.
Unconsumed(toks, len) == Len(toks) > len

RECURSIVE json_parse_config(_, _)
json_parse_config(pairs, cfg) ==
    IF pairs = <<>> THEN cfg
    ELSE LET name == Head(pairs)[1]
             val  == Head(pairs)[2]
         IN  json_parse_config(Tail(pairs),
                 IF name \in DOMAIN cfg THEN [cfg EXCEPT ![name] = val] ELSE cfg)

\* One layer object: every known key allocates and fills its tensor, any
\* other key is skipped.  Returns the layer and whether the parser hung.
RECURSIVE json_parse_layer(_, _, _, _)
json_parse_layer(tensors, layer, d_model, d_ff) ==
    IF tensors = <<>> THEN [layer |-> layer, hang |-> FALSE]
    ELSE LET t   == Head(tensors)
             len == LayerTensorLen(t.key, d_model, d_ff)
         IN  IF t.key \notin LayerKeySet
                 THEN json_parse_layer(Tail(tensors), layer, d_model, d_ff)
             ELSE IF Unconsumed(t.toks, len)
                 THEN [layer |-> [layer EXCEPT ![t.key] = json_parse_1d_array(t.toks, len)],
                       hang |-> TRUE]
             ELSE json_parse_layer(Tail(tensors),
                      [layer EXCEPT ![t.key] = json_parse_1d_array(t.toks, len)],
                      d_model, d_ff)

Min(a, b) == IF a < b THEN a ELSE b

\* for (l = 0; l < n_layers && l < MAX_LAYERS; l++) json_parse_layer(...)
RECURSIVE ParseLayers(_, _, _)
ParseLayers(objs, l, m) ==
    IF l >= Min(m.config.n_layers, MAX_LAYERS)
        THEN [m |-> m, hang |-> Len(objs) > l]
    ELSE IF l >= Len(objs)
        THEN ParseLayers(objs, l + 1, m)
    ELSE LET r == json_parse_layer(objs[l + 1], m.layers[l],
                                   m.config.d_model, m.config.d_ff)
             m2 == [m EXCEPT !.layers[l] = r.layer]
         IN  IF r.hang THEN [m |-> m2, hang |-> TRUE]
             ELSE ParseLayers(objs, l + 1, m2)

\* The key loop of load_model_weights from entry i on.
RECURSIVE ParseEntries(_, _, _)
ParseEntries(entries, i, m) ==
    IF i > Len(entries) THEN [m |-> m, hang |-> FALSE]
    ELSE LET e  == entries[i]
             vs == m.config.vocab_size
             dm == m.config.d_model
         IN  CASE e.key = "config" ->
                    ParseEntries(entries, i + 1,
                        [m EXCEPT !.config = json_parse_config(e.cfg, m.config)])
               [] e.key = "token_embeddings" ->
                    LET m2 == [m EXCEPT !.token_embeddings = json_parse_2d_array(e.toks, vs, dm)]
                    IN  IF Unconsumed(e.toks, vs * dm) THEN [m |-> m2, hang |-> TRUE]
                        ELSE ParseEntries(entries, i + 1, m2)
               [] e.key = "output_proj" ->
                    LET m2 == [m EXCEPT !.output_proj = json_parse_2d_array(e.toks, dm, vs)]
                    IN  IF Unconsumed(e.toks, dm * vs) THEN [m |-> m2, hang |-> TRUE]
                        ELSE ParseEntries(entries, i + 1, m2)
               [] e.key = "layers" ->
                    LET r == ParseLayers(e.layers, 0, m)
                    IN  IF r.hang THEN r ELSE ParseEntries(entries, i + 1, r.m)
               [] OTHER -> ParseEntries(entries, i + 1, m)

\* load_model_weights: the return value, the model it leaves, and whether
\* the call returns at all.
load_model_weights(file, model) ==
    IF ~file.exists \/ ~file.obj
        THEN [ret |-> -1, m |-> model, hang |-> FALSE]
    ELSE LET r == ParseEntries(file.entries, 1, model)
         IN  IF r.hang THEN [ret |-> 0, m |-> r.m, hang |-> TRUE]
             ELSE [ret |-> 0, m |-> [r.m EXCEPT !.loaded = 1], hang |-> FALSE]

(***************************************************************************)
(* save_model_weights (eigenscript.c:2660-2754).                           *)
(***************************************************************************)
NoFile == [exists |-> FALSE, obj |-> FALSE, entries |-> <<>>]

\* What fopen(path, "w") leaves when the process dies before fclose: the
\* output of these small models is still in the stdio buffer.
TruncatedFile == [exists |-> TRUE, obj |-> FALSE, entries |-> <<>>]

\* data[i] of a block; past the end of the block the read is out of bounds
\* and yields whatever the heap holds there (g).
ReadAt(t, i, g) == IF i <= Len(t.v) THEN t.v[i] ELSE g

\* A read of len elements through a NULL pointer.
NullRead(t, len) == len > 0 /\ ~t.alloc

NeverBad(t, len, g) == FALSE

\* The scan for (i < len) if (isnan(data[i]) || isinf(data[i])) return -1.
HasBad(t, len, g) == \E i \in 1..len : IsBad(ReadAt(t, i, g))

WriteTensor(t, len, g) == [i \in 1..len |-> FormatG17(ReadAt(t, i, g))]

WriteConfig(c) ==
    << <<"vocab_size", c.vocab_size>>, <<"d_model", c.d_model>>,
       <<"n_heads", c.n_heads>>, <<"n_layers", c.n_layers>>,
       <<"d_ff", c.d_ff>>, <<"max_seq_len", c.max_seq_len>> >>

WriteLayer(layer, dm, df, g) ==
    [k \in 1..Len(LayerKeys) |->
        [key |-> LayerKeys[k],
         toks |-> WriteTensor(layer[LayerKeys[k]], LayerTensorLen(LayerKeys[k], dm, df), g)]]

\* The text save writes for a model all of whose tensors can be read.
Serialize(model, g) ==
    LET c == model.config
    IN  [exists |-> TRUE, obj |-> TRUE,
         entries |-> <<
            Entry("config", WriteConfig(c), <<>>, <<>>),
            Entry("token_embeddings", <<>>,
                  WriteTensor(model.token_embeddings, c.vocab_size * c.d_model, g), <<>>),
            Entry("output_proj", <<>>,
                  WriteTensor(model.output_proj, c.d_model * c.vocab_size, g), <<>>),
            Entry("layers", <<>>, <<>>,
                  [l \in 1..c.n_layers |->
                      WriteLayer(model.layers[l - 1], c.d_model, c.d_ff, g)]) >>]

\* The layer loop of save runs to n_layers: a layer slot past the array, or
\* a layer tensor that was never allocated, ends the process mid-file.
LayerFault(model) ==
    LET c == model.config
    IN  \E l \in 0..(c.n_layers - 1) :
            \/ l >= MAX_LAYERS
            \/ \E k \in LayerKeySet :
                   NullRead(model.layers[l][k], LayerTensorLen(k, c.d_model, c.d_ff))

\* Returns what the call did: "ret" with its return value and the file it
\* leaves at the path (old is the file there before the call), or "crash".
save_model_weights(old, model, g) ==
    LET c == model.config
        n == c.vocab_size * c.d_model
    IN  IF NullRead(model.token_embeddings, n)
            THEN [how |-> "crash", ret |-> 0, file |-> old]
        ELSE IF HasBad(model.token_embeddings, n, g)
            THEN [how |-> "ret", ret |-> -1, file |-> old]
        ELSE IF NullRead(model.output_proj, n)
            THEN [how |-> "crash", ret |-> 0, file |-> old]
        ELSE IF HasBad(model.output_proj, n, g)
            THEN [how |-> "ret", ret |-> -1, file |-> old]
        ELSE IF LayerFault(model)
            THEN [how |-> "crash", ret |-> 0, file |-> TruncatedFile]
        ELSE [how |-> "ret", ret |-> 0, file |-> Serialize(model, g)]

(***************************************************************************)
(* native_train_step (eigenscript.c:2371-2658).                            *)
(*                                                                         *)
(* Doubles of a third kind appear here: <<"h", s>> is s * 10^200, a        *)
(* finite weight so large that products of two of them overflow.           *)
(* Step sizes are integers: a learning rate lr and a gradient <<"s", k>>   *)
(* change a weight by lr * k.                                              *)
(***************************************************************************)
\* k * g for a finite k >= 0.
FMul(k, g) ==
    CASE g[1] = "s" -> <<"s", k * g[2]>>
      [] g[1] = "inf" -> IF k = 0 THEN NaN ELSE g
      [] OTHER -> NaN

\* w - d in IEEE arithmetic, d a small integer, an infinity or a NaN.
FSub(w, d) ==
    CASE isnan(w) \/ isnan(d) -> NaN
      [] isinf(w) /\ isinf(d) -> IF w[2] = d[2] THEN NaN ELSE w
      [] isinf(w) -> w
      [] isinf(d) -> <<"inf", -d[2]>>
      [] w[1] = "s" -> <<"s", w[2] - d[2]>>
      [] w[1] = "b" -> <<"b", RoundHalfEven(Ulp * w[2] - d[2], Ulp)>>
      [] OTHER -> w

\* sanitize_training_text: control bytes other than \n and \t and DEL are
\* dropped; quotes, backquote, backslash and bytes >= 128 become a space.
sanitize_training_text(src) ==
    CHOOSE dst \in
        {[i \in 1..Len(kept) |->
             IF kept[i] \in {39, 96, 34, 92} \/ kept[i] >= 128 THEN 32 ELSE kept[i]] :
         kept \in {SelectSeq(src, LAMBDA c : ~((c < 32 /\ c # 10 /\ c # 9) \/ c = 127))}} :
        TRUE

\* token_ids[i] = byte % vocab_size
TokenIds(text, vocab_size) ==
    CHOOSE token_ids \in {[i \in 1..Len(t) |-> t[i] % vocab_size] : t \in {text}} : TRUE

\* The floor of log(g_model_age + M_E): 1 up to e^2 - e, 2 up to e^3 - e.
LnFloor(age) == IF age <= 4 THEN 1 ELSE IF age <= 17 THEN 2 ELSE 3

\* effective_lr = learning_rate / log(g_model_age + M_E), to the step below.
EffectiveLr(lr, age) == lr \div LnFloor(age)

\* The loop for (t = 0; t < full_len - 1; t++) counts one token per turn.
NumTokensOff(full_len) == full_len

NumTokens(full_len) == full_len - 1

AgeReset(age, num_tokens) == num_tokens

\* g_model_age += num_tokens
AgeAfter(age, num_tokens) == age + num_tokens

\* Tokens that are some context's input: all but the last one.
ContextTokens(ids) == UNION {{t[i] : i \in 1..(Len(t) - 1)} : t \in {ids}}

\* In-extent elements of the tensors a training step reads and updates.
Extent(t, len) == [i \in 1..Min(len, Len(t.v)) |-> t.v[i]]

LayerWeights(model) ==
    LET c == model.config
    IN  UNION {{Extent(model.layers[l][k], LayerTensorLen(k, c.d_model, c.d_ff))[i] :
                   i \in 1..Len(Extent(model.layers[l][k], LayerTensorLen(k, c.d_model, c.d_ff)))} :
               l \in 0..(Min(c.n_layers, MAX_LAYERS) - 1), k \in LayerKeySet}

EmbRow(model, tok) ==
    LET dm == model.config.d_model
    IN  {ReadAt(model.token_embeddings, tok * dm + j, Zero) : j \in 1..dm}

ProjWeights(model) ==
    LET e == Extent(model.output_proj, model.config.d_model * model.config.vocab_size)
    IN  {e[i] : i \in 1..Len(e)}

\* The weights the forward passes of a step over ids multiply by.
TouchedWeights(model, ids) ==
    LayerWeights(model) \cup ProjWeights(model)
        \cup UNION {EmbRow(model, tok) : tok \in ContextTokens(ids)}

\* A tensor the step dereferences is NULL.
MissingTensor(model) ==
    LET c == model.config
        n == c.vocab_size * c.d_model
    IN  \/ NullRead(model.token_embeddings, n)
        \/ NullRead(model.output_proj, n)
        \/ \E l \in 0..(Min(c.n_layers, MAX_LAYERS) - 1) : \E k \in LayerKeySet :
               NullRead(model.layers[l][k], LayerTensorLen(k, c.d_model, c.d_ff))

\* A tensor the step reads and writes is shorter than its extent, or the
\* layer loop leaves the layers array, or the context is empty and the row
\* of its last position is the one before the buffer: reads and writes land
\* outside.
OutOfBounds(model) ==
    LET c == model.config
        n == c.vocab_size * c.d_model
    IN  \/ c.n_layers > MAX_LAYERS
        \/ c.max_seq_len < 1
        \/ Len(model.token_embeddings.v) < n
        \/ Len(model.output_proj.v) < n
        \/ \E l \in 0..(Min(c.n_layers, MAX_LAYERS) - 1) : \E k \in LayerKeySet :
               Len(model.layers[l][k].v) < LayerTensorLen(k, c.d_model, c.d_ff)

(***************************************************************************)
(* What the forward and backward passes of one step leave behind: the      *)
(* summed loss and, for every accumulator, the value of its entries that   *)
(* received gradient (the rows of grad_token_emb of tokens outside every   *)
(* context stay 0.0).                                                      *)
(***************************************************************************)
One == <<"s", 1>>

Pass(loss, gproj, gemb, gff2) ==
    [loss |-> loss, gproj |-> gproj, gemb |-> gemb,
     lg |-> [k \in LayerKeySet |-> IF k = "w_ff2" THEN gff2 ELSE One]]

PassFinite == Pass(One, One, One, One)

PassLossNaN == Pass(NaN, NaN, NaN, NaN)

PassProjInf == Pass(One, PInf, One, One)

PassEmbNaN == Pass(One, One, NaN, One)

\* Overflow in the feed-forward gradient only: with w_ff1 and the output
\* projection near 1e200 the w_ff2 accumulator reaches Inf while the loss
\* and the two checked accumulators stay finite.
PassLayerInf == Pass(One, One, One, PInf)

Passes == {PassFinite, PassLossNaN, PassProjInf, PassEmbNaN, PassLayerInf}

\* Finite passes need finite weights; a NaN or Inf among the weights read
\* reaches every logit; overflow needs a huge weight.
Feasible(pass, W) ==
    IF \E w \in W : IsBad(w) THEN pass = PassLossNaN
    ELSE IF \E w \in W : w[1] = "h" THEN TRUE
    ELSE pass = PassFinite

\* has_nan_grad: the scan of grad_output_proj and grad_token_emb.
has_nan_grad(pass, model, ids) ==
    \/ (model.config.d_model * model.config.vocab_size > 0 /\ IsBad(pass.gproj))
    \/ (model.config.d_model > 0 /\ ContextTokens(ids) # {} /\ IsBad(pass.gemb))

\* Some accumulator of the step, checked or not, holds a NaN or an Inf.
AnyBadGrad(pass, model, ids) ==
    \/ has_nan_grad(pass, model, ids)
    \/ \E k \in LayerKeySet :
           /\ model.config.n_layers > 0
           /\ LayerTensorLen(k, model.config.d_model, model.config.d_ff) > 0
           /\ IsBad(pass.lg[k])

\* for (i < len) data[i] -= step * grad[i]
SgdTensor(t, len, step, g) ==
    Block([i \in 1..Len(t.v) |-> IF i <= len THEN FSub(t.v[i], FMul(step, g)) ELSE t.v[i]])

\* The update of eigenscript.c:2612-2634.
SgdUpdate(model, pass, ids, effective_lr) ==
    LET c     == model.config
        scale == effective_lr \div 10
        emb   == model.token_embeddings
    IN  [model EXCEPT
            !.output_proj = SgdTensor(@, c.d_model * c.vocab_size, effective_lr, pass.gproj),
            !.token_embeddings =
                Block([i \in 1..Len(emb.v) |->
                    IF i <= c.vocab_size * c.d_model
                        THEN FSub(emb.v[i],
                                  FMul(effective_lr,
                                       IF ((i - 1) \div c.d_model) \in ContextTokens(ids)
                                           THEN pass.gemb ELSE Zero))
                        ELSE emb.v[i]]),
            !.layers = [l \in DOMAIN @ |->
                IF l < c.n_layers
                    THEN [k \in LayerKeySet |->
                             SgdTensor(@[l][k], LayerTensorLen(k, c.d_model, c.d_ff),
                                       scale, pass.lg[k])]
                    ELSE @[l]]]

\* native_train_step: how the call ends, what it returns and stores, and
\* the model and counters it leaves.  loss is what a successful call stores
\* in *loss_out (line 2639); callers read it after a return of 0 only.
native_train_step(model, age, samples, input_text, output_text, lr, pass) ==
    LET text == sanitize_training_text(input_text) \o sanitize_training_text(output_text)
        full_len == Len(text)
        vs   == model.config.vocab_size
        ids  == TokenIds(text, vs)
        same == [how |-> "ret", ret |-> -1, m |-> model, age |-> age,
                 samples |-> samples, tokens |-> 0, full_len |-> full_len,
                 badloss |-> FALSE, badgrad |-> FALSE, loss |-> Zero]
    IN  IF model.loaded = 0 THEN same
        ELSE IF vs = 0 /\ full_len > 0 THEN [same EXCEPT !.how = "crash"]
        ELSE IF full_len < 2 THEN same
        ELSE IF MissingTensor(model) THEN [same EXCEPT !.how = "crash"]
        ELSE IF OutOfBounds(model) THEN [same EXCEPT !.how = "ub"]
        ELSE LET seen == [same EXCEPT !.badloss = IsBad(pass.loss),
                                      !.badgrad = AnyBadGrad(pass, model, ids)]
             IN  IF IsBad(pass.loss) THEN seen
                 ELSE IF has_nan_grad(pass, model, ids) THEN seen
                 ELSE [seen EXCEPT
                          !.ret = 0,
                          !.m = SgdUpdate(model, pass, ids, EffectiveLr(lr, age)),
                          !.age = AgeAfter(age, NumTokens(full_len)),
                          !.samples = samples + 1,
                          !.tokens = NumTokens(full_len),
                          !.loss = pass.loss]

(***************************************************************************)
(* The files on disk when the process starts.  All configs are             *)
(* vocab_size 2, d_model 2, n_heads 1, n_layers 1, d_ff 2, max_seq_len 2.  *)
(***************************************************************************)
Num(n) == <<"s", n>>

BaseConfig == << <<"vocab_size", 2>>, <<"d_model", 2>>, <<"n_heads", 1>>,
                 <<"n_layers", 1>>, <<"d_ff", 2>>, <<"max_seq_len", 2>> >>

Identity2 == <<Num(1), Num(0), Num(0), Num(1)>>

Zeros2 == <<Num(0), Num(0), Num(0), Num(0)>>

LayerObject(ff1, ff2) ==
    << [key |-> "w_q", toks |-> Identity2], [key |-> "w_k", toks |-> Identity2],
       [key |-> "w_v", toks |-> Identity2], [key |-> "w_o", toks |-> Zeros2],
       [key |-> "w_ff1", toks |-> ff1], [key |-> "w_ff2", toks |-> ff2],
       [key |-> "ln1_gamma", toks |-> <<Num(1), Num(1)>>],
       [key |-> "ln1_beta", toks |-> <<Num(0), Num(0)>>],
       [key |-> "ln2_gamma", toks |-> <<Num(1), Num(1)>>],
       [key |-> "ln2_beta", toks |-> <<Num(0), Num(0)>>] >>

ObjectFile(entries) == [exists |-> TRUE, obj |-> TRUE, entries |-> entries]

FullFile(emb, proj, ff1, ff2) ==
    ObjectFile(<< Entry("config", BaseConfig, <<>>, <<>>),
                  Entry("comment", <<>>, <<>>, <<>>),
                  Entry("token_embeddings", <<>>, emb, <<>>),
                  Entry("output_proj", <<>>, proj, <<>>),
                  Entry("layers", <<>>, <<>>, <<LayerObject(ff1, ff2)>>) >>)

SmallEmb == <<Num(1), Num(2), Num(-1), Num(3)>>

SmallProj == <<Num(1), Num(-1), Num(-1), Num(1)>>

\* A well-formed model: embeddings near 10^17 (two of 18 digits, one of
\* 17), and an output projection and a feed-forward matrix of huge finite
\* weights.
ModelFile == FullFile(<<Num(1), <<"b", 16>>, <<"b", -16>>, <<"b", 48>>>>,
                      <<<<"h", 1>>, <<"h", -1>>, <<"h", -1>>, <<"h", 1>>>>,
                      <<<<"h", 1>>, Num(0), Num(0), <<"h", 1>>>>, Zeros2)

NanLayerFile == FullFile(SmallEmb, SmallProj, Identity2, <<NaN, Num(0), Num(0), Num(0)>>)

NanEmbFile == FullFile(<<NaN, Num(2), Num(-1), Num(3)>>, SmallProj, Identity2, Zeros2)

InfProjFile == FullFile(SmallEmb, <<Num(1), Num(-1), Num(-1), NInf>>, Identity2, Zeros2)

\* A file that is not a JSON object.
TextFile == [exists |-> TRUE, obj |-> FALSE, entries |-> <<>>]

ConfigOnlyFile == ObjectFile(<<Entry("config", BaseConfig, <<>>, <<>>)>>)

NoConfigFile ==
    ObjectFile(<< Entry("token_embeddings", <<>>, SmallEmb, <<>>),
                  Entry("output_proj", <<>>, SmallProj, <<>>),
                  Entry("layers", <<>>, <<>>, <<LayerObject(Identity2, Zeros2)>>) >>)

EmptyObjectFile == ObjectFile(<<>>)

\* A model whose config declares one layer more than MAX_LAYERS and whose
\* layers array holds MAX_LAYERS layers.
DeepFile ==
    ObjectFile(<< Entry("config",
                        [i \in 1..Len(BaseConfig) |->
                            IF BaseConfig[i][1] = "n_layers"
                                THEN <<"n_layers", MAX_LAYERS + 1>> ELSE BaseConfig[i]],
                        <<>>, <<>>),
                  Entry("token_embeddings", <<>>, SmallEmb, <<>>),
                  Entry("output_proj", <<>>, SmallProj, <<>>),
                  Entry("layers", <<>>, <<>>,
                        [l \in 1..MAX_LAYERS |-> LayerObject(Identity2, Zeros2)]) >>)

\* A path is <<stem, suffix>>.
Base(stem) == <<stem, ".json">>

Live(stem) == <<stem, "_live.json">>

InitialDisk ==
    (Base("model") :> ModelFile) @@ (Live("model") :> NoFile)
        @@ (Base("nanlayer") :> NanLayerFile) @@ (Base("nanemb") :> NanEmbFile)
        @@ (Base("infproj") :> InfProjFile) @@ (Base("text") :> TextFile)
        @@ (Base("cfgonly") :> ConfigOnlyFile) @@ (Base("nocfg") :> NoConfigFile)
        @@ (Base("empty") :> EmptyObjectFile) @@ (Base("absent") :> NoFile)

LoadArgs == {p \in DOMAIN InitialDisk : p[2] = ".json"}

SaveArgs == {Base("model")}

\* What the callers pass to native_train_step: <<input, output>> texts of
\* control bytes (7), quotes (34) and letters (97), which sanitize to 0, 1,
\* 2 and 3 bytes, and a learning rate.
Samples == { <<<<>>, <<7>>>>, <<<<97>>, <<>>>>, <<<<7, 97>>, <<34>>>>,
             <<<<34, 97>>, <<97>>>> }

LearningRates == {20}

\* The values an out-of-bounds heap read can produce.
Garbage == {Zero, NaN}

MaxAge == 3

(***************************************************************************)
(* The engine: the state after main() starts and one action per call.      *)
(***************************************************************************)
NoCall == [op |-> "none", ret |-> 0, path |-> <<"", "">>, full_len |-> 0,
           tokens |-> 0, badloss |-> FALSE, badgrad |-> FALSE]

NoOrigin == [valid |-> FALSE, m |-> ZeroModel]

\* No generate_response call is under way.
GenIdle == [pc |-> "idle", prompt_len |-> 0, max_tokens |-> 0, step |-> 0,
            token_ids |-> <<>>, output |-> <<>>, sampled |-> <<>>,
            seed |-> <<>>, forwards |-> 0, ctx |-> <<>>,
            peeked |-> FALSE, peek_ctx |-> <<>>, space_low |-> FALSE]

REPLAY_BUFFER_SIZE == 32

REPLAY_TARGET_LOSS == 3

REPLAY_MAX_PASSES == 50

REPLAY_PASSES_PER_REQUEST == 5

\* An element of the static array g_replay_buffer before its first use.
ZeroEntry == [question |-> <<>>, answer |-> <<>>, last_loss |-> Zero,
              train_count |-> 0, converged |-> 0]

ZeroReplayBuffer == [i \in 0..(REPLAY_BUFFER_SIZE - 1) |-> ZeroEntry]

\* No builtin_eigen_hybrid_chat call is under way.  learn, added and calls
\* are ghosts: the native_train_step call of line 3415, the
\* replay_buffer_add call of line 3430 and the native_train_step calls of
\* replay_buffer_run, as the request made them; samples0 and conversations0
\* are g_training_samples and g_conversation_count when the server started
\* taking requests.
NoLearn == [called |-> FALSE, output |-> <<>>, ret |-> 0, loss |-> Zero]

NoAdd == [called |-> FALSE, question |-> <<>>, answer |-> <<>>, loss |-> Zero]

ChatIdle == [pc |-> "idle", message |-> <<>>, generated |-> <<>>, clean |-> <<>>,
             trained_bypass |-> 0, garble_detected |-> 0, openai_used |-> 0,
             stored |-> FALSE, learn |-> NoLearn, added |-> NoAdd,
             calls |-> <<>>, samples0 |-> 0, conversations0 |-> 0]

\* No is_garble_response call has been made.
GarbleIdle == [pc |-> "idle", text |-> <<>>, result |-> 0]

\* No attention forward pass has been made.
AttnIdle == [pc |-> "idle", seq_len |-> 0, scores |-> <<>>, probs |-> <<>>]

\* No native_train_step call is being followed.
TrainIdle == [pc |-> "idle", calls |-> 0, token_ids |-> <<>>, max_ctx |-> 0, t |-> 0,
              ctx_start |-> 0, ctx_len |-> 0, ctx |-> <<>>, target_id |-> -1,
              cache |-> <<>>, reads |-> {}]

\* No EigenValue has been initialised.
EigenIdle == [pc |-> "none", value |-> 0, history_size |-> 0, history_index |-> 0,
              iteration |-> 0, written |-> {}, check |-> "none", read |-> {}]

\* main() before the script binds or serves: Server g_server = {0},
\* g_init_complete = 0, g_health_thread_active = 0 (eigenscript.c:10-13).
ServeIdle == [main |-> "script", health |-> "none", g_init_complete |-> 0,
              g_health_thread_active |-> 0, early_bind_fd |-> 0, early |-> FALSE,
              late |-> FALSE, backlog |-> <<>>, late_backlog |-> <<>>, conn |-> "none",
              clients |-> 0, handled |-> 0, on_model |-> {}]

\* The parts of the program that are followed on their own are at rest.
Dormant == train = TrainIdle /\ eigen = EigenIdle /\ serve = ServeIdle

\* The chat handler before its first request.
ChatAtRest ==
    /\ g_replay_buffer = ZeroReplayBuffer
    /\ g_replay_count = 0
    /\ g_conversation_count = 0
    /\ g_db_conn = FALSE
    /\ chat = ChatIdle

\* The chat handler and the kernels at rest.
Quiet ==
    /\ ChatAtRest
    /\ garble = GarbleIdle
    /\ attn = AttnIdle
    /\ Dormant

\* The engine when main() starts.
EngineAtRest ==
    /\ g_model = ZeroModel
    /\ g_model_age = 0
    /\ g_training_samples = 0
    /\ disk = InitialDisk
    /\ status = "up"
    /\ last = NoCall
    /\ origin = NoOrigin
    /\ gen = GenIdle

Init == EngineAtRest /\ Quiet

\* builtin_eigen_model_load: "<stem>_live.json" is loaded in place of
\* "<stem>.json" when it can be opened.
LoadPath(base, d) ==
    IF Live(base[1]) \in DOMAIN d /\ d[Live(base[1])].exists
        THEN Live(base[1]) ELSE base

LoadModel(base) ==
    LET path == LoadPath(base, disk)
        r    == load_model_weights(disk[path], g_model)
    IN  /\ status = "up"
        /\ g_model' = r.m
        /\ status' = IF r.hang THEN "hung" ELSE "up"
        /\ last' = [NoCall EXCEPT !.op = "load", !.ret = r.ret, !.path = path]
        /\ UNCHANGED <<g_model_age, g_training_samples, disk, origin, gen, chatVars, kernelVars>>

\* The tensors of a model as save reads them.
AsRead(model, g) ==
    LET c == model.config
        n == c.vocab_size * c.d_model
    IN  [model EXCEPT
            !.token_embeddings = Block([i \in 1..n |-> ReadAt(@, i, g)]),
            !.output_proj = Block([i \in 1..n |-> ReadAt(@, i, g)]),
            !.layers = [l \in DOMAIN @ |->
                IF l < c.n_layers
                    THEN [k \in LayerKeySet |->
                             Block([i \in 1..LayerTensorLen(k, c.d_model, c.d_ff) |->
                                       ReadAt(@[l][k], i, g)])]
                    ELSE @[l]]]

\* builtin_model_save: "<stem>.json" is saved as "<stem>_live.json".
SaveModel(base, g) ==
    LET path == Live(base[1])
        r    == save_model_weights(disk[path], g_model, g)
    IN  /\ status = "up"
        /\ disk' = [disk EXCEPT ![path] = r.file]
        /\ status' = IF r.how = "ret" THEN "up" ELSE "crashed"
        /\ last' = [NoCall EXCEPT !.op = "save", !.ret = r.ret, !.path = path]
        /\ origin' = IF r.how = "ret" /\ r.ret = 0
                         THEN [valid |-> TRUE, m |-> AsRead(g_model, g)]
                         ELSE IF r.file = disk[path] THEN origin ELSE NoOrigin
        /\ UNCHANGED <<g_model, g_model_age, g_training_samples, gen, chatVars, kernelVars>>

TrainStep(input_text, output_text, lr, pass) ==
    LET r == native_train_step(g_model, g_model_age, g_training_samples,
                               input_text, output_text, lr, pass)
        vs  == g_model.config.vocab_size
        ids == IF vs = 0 THEN <<>>
               ELSE TokenIds(sanitize_training_text(input_text)
                                 \o sanitize_training_text(output_text), vs)
    IN  /\ status = "up"
        /\ g_model_age + r.full_len <= MaxAge + 1
        /\ Feasible(pass, TouchedWeights(g_model, ids))
        /\ g_model' = r.m
        /\ g_model_age' = r.age
        /\ g_training_samples' = r.samples
        /\ status' = IF r.how = "ret" THEN "up"
                     ELSE IF r.how = "crash" THEN "crashed" ELSE "ub"
        /\ last' = [NoCall EXCEPT !.op = "train", !.ret = r.ret,
                                  !.full_len = r.full_len, !.tokens = r.tokens,
                                  !.badloss = r.badloss, !.badgrad = r.badgrad]
        /\ UNCHANGED <<disk, origin, gen, chatVars, kernelVars>>

\* generate_response as the chat handler calls it: it reads the model and
\* changes nothing the engine keeps.
Generate ==
    /\ status = "up"
    /\ status' = IF MissingTensor(g_model) THEN "crashed"
                 ELSE IF OutOfBounds(g_model) THEN "ub" ELSE "up"
    /\ last' = [NoCall EXCEPT !.op = "generate"]
    /\ UNCHANGED <<g_model, g_model_age, g_training_samples, disk, origin, gen, chatVars, kernelVars>>

Next ==
    \/ \E base \in LoadArgs : LoadModel(base)
    \/ \E base \in SaveArgs, g \in Garbage : SaveModel(base, g)
    \/ \E s \in Samples, lr \in LearningRates, pass \in Passes :
           TrainStep(s[1], s[2], lr, pass)
    \/ Generate

Spec == Init /\ [][Next]_vars

(***************************************************************************)
(* generate_response (eigenscript.c:2122-2212), one loop turn per step.    *)
(* The logits of a turn, and with them the repetition penalty and the      *)
(* random draw, are abstracted to the token the turn samples: any token    *)
(* of GenTokens.  gen.token_ids is the filled part of token_ids,           *)
(* gen.output the filled part of output, gen.sampled the tokens sampled    *)
(* so far (ghost).                                                         *)
(***************************************************************************)
VOCAB_SIZE == 256

MaxSeqLen == 2

MaxPromptLen == 2

MaxTokens == 4

\* Null, newline, '.', 'a' and a byte that is not ASCII.
GenTokens == {0, 10, 46, 97, 200}

\* The prompt of the chat handler starts "User: "; only its length varies.
PromptByte(i) == IF i = 1 THEN 85 ELSE 115

\* A model file for the sampler: a config of vocab_size 256, d_model 1, no
\* layers and the given max_seq_len, with or without the two tensors, which
\* load fills with 0.0.
GenFile(max_seq_len, tensors) ==
    ObjectFile(<< Entry("config",
                        << <<"vocab_size", VOCAB_SIZE>>, <<"d_model", 1>>,
                           <<"n_heads", 1>>, <<"n_layers", 0>>, <<"d_ff", 1>>,
                           <<"max_seq_len", max_seq_len>> >>, <<>>, <<>>) >>
               \o (IF tensors
                       THEN << Entry("token_embeddings", <<>>, <<>>, <<>>),
                               Entry("output_proj", <<>>, <<>>, <<>>) >>
                       ELSE <<>>))

GenModels ==
    {load_model_weights(GenFile(msl, t), ZeroModel).m : msl \in 1..MaxSeqLen, t \in BOOLEAN}

InitGen ==
    /\ g_model \in GenModels
    /\ g_model_age = 0
    /\ g_training_samples = 0
    /\ disk = InitialDisk
    /\ status = "up"
    /\ last = NoCall
    /\ origin = NoOrigin
    /\ gen = GenIdle
    /\ Quiet

\* Lines 2123-2137: the locals when the loop is entered.  The prompt is
\* tokenized up to max_seq_len tokens.
Entered(model, prompt_len, max_tokens) ==
    LET num_tokens == Min(prompt_len, model.config.max_seq_len)
        seed == [i \in 1..num_tokens |-> PromptByte(i) % model.config.vocab_size]
    IN  [GenIdle EXCEPT !.pc = "loop", !.prompt_len = prompt_len,
                        !.max_tokens = max_tokens, !.token_ids = seed, !.seed = seed]

GenCall(prompt_len, max_tokens) ==
    LET vocab_size  == g_model.config.vocab_size
        max_seq_len == g_model.config.max_seq_len
        num_tokens  == Min(prompt_len, max_seq_len)
    IN  /\ status = "up"
        /\ gen.pc = "idle"
        /\ IF num_tokens > 0 /\ vocab_size = 0
               THEN /\ status' = "crashed"
                    /\ gen' = [gen EXCEPT !.pc = "crashed", !.prompt_len = prompt_len,
                                          !.max_tokens = max_tokens]
               ELSE /\ status' = "up"
                    /\ gen' = Entered(g_model, prompt_len, max_tokens)
        /\ UNCHANGED <<g_model, g_model_age, g_training_samples, disk, last, origin,
                       chatVars, kernelVars>>

NeverStopToken(next_token) == FALSE

\* if (next_token == '\n' || next_token == 0) break;
IsStopToken(next_token) == next_token = 10 \/ next_token = 0

IsSentenceEnd(c) == c = 46 \/ c = 33 \/ c = 63

\* sent_count of lines 2187-2190.
SentCount(output) == Cardinality({si \in 1..Len(output) : IsSentenceEnd(output[si])})

\* Line 2186: the output is past its third character and ends a sentence.
AtSentenceEnd(output) == Len(output) > 3 /\ IsSentenceEnd(output[Len(output)])

\* Lines 2191-2192 pass: the peek of lines 2194-2204 is run.
Peeks(output) == AtSentenceEnd(output) /\ SentCount(output) < 3 /\ Len(output) > 18

\* The block without the exit of line 2192.
LongSentenceStop(output, peek_low) ==
    /\ Len(output) > 3
    /\ IsSentenceEnd(output[Len(output)])
    /\ (SentCount(output) >= 3 \/ peek_low)

\* The block of lines 2186-2205: after a sentence end past the third
\* character, stop at the third sentence, or when the output is short, or
\* when the peeked probability of a space is low (peek_low).
SentenceStop(output, peek_low) ==
    LET output_len == Len(output)
        sent_count == SentCount(output)
    IN  /\ output_len > 3
        /\ IsSentenceEnd(output[output_len])
        /\ (sent_count >= 3 \/ output_len <= 18 \/ peek_low)

\* Lines 2140-2141 and 2195-2196: token_ids + ctx_start, ctx_len.
Context(token_ids, max_seq_len) ==
    LET total_tokens == Len(token_ids)
        ctx_start == IF total_tokens > max_seq_len THEN total_tokens - max_seq_len ELSE 0
    IN  SubSeq(token_ids, ctx_start + 1, total_tokens)

\* Lines 2177-2179: the sampled token is stored while the buffer of
\* max_seq_len * 4 ints has room.
Stored(token_ids, max_seq_len, next_token) ==
    IF Len(token_ids) < max_seq_len * 4 THEN Append(token_ids, next_token) ELSE token_ids

\* One turn of the loop at line 2139 on the locals g: forward pass, draw,
\* bookkeeping, and the two ways out of the loop.
LoopTurn(g, model, next_token, peek_low) ==
    LET max_seq_len == model.config.max_seq_len
        token_ids2 == Stored(g.token_ids, max_seq_len, next_token)
        output2 == IF next_token > 0 /\ next_token < 128
                       THEN Append(g.output, next_token) ELSE g.output
        peeked == ~IsStopToken(next_token) /\ Peeks(output2)
        stop == IsStopToken(next_token) \/ SentenceStop(output2, peek_low)
    IN  [g EXCEPT !.pc = IF stop THEN "returned" ELSE "loop",
                  !.step = IF stop THEN @ ELSE @ + 1,
                  !.token_ids = token_ids2,
                  !.output = output2,
                  !.sampled = Append(@, next_token),
                  !.forwards = @ + (IF peeked THEN 2 ELSE 1),
                  !.ctx = Context(g.token_ids, max_seq_len),
                  !.peeked = peeked,
                  !.peek_ctx = IF peeked THEN Context(token_ids2, max_seq_len) ELSE <<>>,
                  !.space_low = peeked /\ peek_low]

\* One turn of the loop.  native_forward on an empty context reads the
\* row before its buffer (line 2100): the call goes on with what it read,
\* or the process ends (fault).
GenStep(next_token, peek_low, fault) ==
    /\ status = "up"
    /\ gen.pc = "loop"
    /\ gen.step < gen.max_tokens
    /\ next_token < g_model.config.vocab_size
    /\ fault => (~MissingTensor(g_model)
                    /\ Context(gen.token_ids, g_model.config.max_seq_len) = <<>>)
    /\ IF MissingTensor(g_model)
           THEN /\ status' = "crashed"
                /\ gen' = [gen EXCEPT !.pc = "crashed"]
       ELSE IF fault
           THEN /\ status' = "ub"
                /\ gen' = [gen EXCEPT !.pc = "ub", !.forwards = @ + 1, !.ctx = <<>>]
           ELSE /\ status' = "up"
                /\ gen' = LoopTurn(gen, g_model, next_token, peek_low)
    /\ UNCHANGED <<g_model, g_model_age, g_training_samples, disk, last, origin,
                   chatVars, kernelVars>>

\* The loop condition step < max_tokens fails; lines 2207-2211 return.
GenExit ==
    /\ status = "up"
    /\ gen.pc = "loop"
    /\ gen.step >= gen.max_tokens
    /\ gen' = [gen EXCEPT !.pc = "returned"]
    /\ UNCHANGED <<g_model, g_model_age, g_training_samples, disk, status, last, origin,
                   chatVars, kernelVars>>

NextGen ==
    \/ \E prompt_len \in 0..MaxPromptLen, max_tokens \in 0..MaxTokens :
           GenCall(prompt_len, max_tokens)
    \/ \E next_token \in GenTokens, peek_low \in BOOLEAN, fault \in BOOLEAN :
           GenStep(next_token, peek_low, fault)
    \/ GenExit

SpecGen == InitGen /\ [][NextGen]_vars

(***************************************************************************)
(* Properties of the engine.                                               *)
(***************************************************************************)
\* Every tensor element the config gives the model.
Tensors(m) ==
    LET c == m.config
    IN  [emb |-> Extent(m.token_embeddings, c.vocab_size * c.d_model),
         proj |-> Extent(m.output_proj, c.d_model * c.vocab_size),
         layers |-> [l \in 0..(Min(c.n_layers, MAX_LAYERS) - 1) |->
                        [k \in LayerKeySet |->
                            Extent(m.layers[l][k], LayerTensorLen(k, c.d_model, c.d_ff))]]]

Weights(m) == <<m.token_embeddings, m.output_proj, m.layers>>

Returned(op, ret) == last.op = op /\ last.ret = ret /\ status = "up"

\* C1: a training step whose mean loss is NaN/Inf, or any of whose gradient
\* accumulators (embedding, output projection, or one of the ten per-layer
\* ones) holds a NaN/Inf, returns failure and leaves every weight unchanged.
C1_NonFiniteStepRefused ==
    [][(last'.op = "train" /\ (last'.badloss \/ last'.badgrad))
          => (status' = "up" /\ last'.ret = -1 /\ Weights(g_model') = Weights(g_model))]_vars

\* C2: a training step on fewer than 2 tokens, or with no model loaded,
\* returns failure and leaves weights, age and sample counter unchanged.
C2_ShortOrUnloadedRefused ==
    [][(last'.op = "train" /\ (g_model.loaded = 0 \/ last'.full_len < 2))
          => (/\ status' = "up" /\ last'.ret = -1
              /\ Weights(g_model') = Weights(g_model)
              /\ g_model_age' = g_model_age
              /\ g_training_samples' = g_training_samples)]_vars

\* C3: a successful training step on L tokens reports L - 1 tokens trained,
\* raises the age by exactly L - 1 and the sample counter by exactly 1.
C3_SuccessCounts ==
    [][(last'.op = "train" /\ last'.ret = 0 /\ status' = "up")
          => (/\ last'.tokens = last'.full_len - 1
              /\ g_model_age' = g_model_age + (last'.full_len - 1)
              /\ g_training_samples' = g_training_samples + 1)]_vars

\* A second successful step, on 3 tokens, after a first one.
C3_Witness ==
    /\ Returned("train", 0) /\ last.full_len = 3 /\ last.tokens = 2
    /\ g_training_samples = 2 /\ g_model_age = 3

BadIn(t, len) == \E i \in 1..Min(len, Len(t.v)) : IsBad(t.v[i])

BadEmbOrProj(m) ==
    \/ BadIn(m.token_embeddings, m.config.vocab_size * m.config.d_model)
    \/ BadIn(m.output_proj, m.config.d_model * m.config.vocab_size)

\* C5: save of a model whose embedding or output projection holds a
\* NaN/Inf returns failure and neither creates nor modifies the file.
C5_SaveRefusesBadEmbProj ==
    [][(last'.op = "save" /\ BadEmbOrProj(g_model))
          => (status' = "up" /\ last'.ret = -1 /\ disk' = disk)]_vars

\* A save refused for an Inf that only the output projection holds.
C5_Witness ==
    /\ Returned("save", -1)
    /\ ~BadIn(g_model.token_embeddings, g_model.config.vocab_size * g_model.config.d_model)
    /\ BadIn(g_model.output_proj, g_model.config.d_model * g_model.config.vocab_size)

FileTokens(f) ==
    UNION {{e.toks[i] : i \in 1..Len(e.toks)} : e \in {f.entries[j] : j \in 1..Len(f.entries)}}
      \cup UNION {UNION {{obj[k].toks[i] : i \in 1..Len(obj[k].toks)} : k \in 1..Len(obj)} :
                  obj \in UNION {{e.layers[l] : l \in 1..Len(e.layers)} :
                                 e \in {f.entries[j] : j \in 1..Len(f.entries)}}}

\* C6: no file written by save holds a NaN/Inf in any tensor, the
\* per-layer tensors included.
C6_SavedFilesFinite ==
    \A base \in SaveArgs : \A tok \in FileTokens(disk[Live(base[1])]) : ~IsBad(tok)

SameModel(a, b) == a.config = b.config /\ Tensors(a) = Tensors(b)

\* C7: loading the file that save wrote gives back the saved model: the
\* same config and the same value in every element of every tensor.
C7_RoundTrip ==
    [][(last'.op = "load" /\ last'.ret = 0 /\ status' = "up"
            /\ last'.path \in {Live(b[1]) : b \in SaveArgs} /\ origin.valid)
          => SameModel(g_model', origin.m)]_vars

\* A reload of the saved baseline, never trained, whose embedding holds
\* 10^17 + 16: 18 digits, printed as ...020 and read back as ...016.
C7_Witness ==
    /\ Returned("load", 0) /\ last.path = Live("model") /\ origin.valid
    /\ g_training_samples = 0
    /\ g_model.token_embeddings.v = <<Num(1), <<"b", 1>>, <<"b", -1>>, <<"b", 3>>>>

HasKey(f, key) == \E j \in 1..Len(f.entries) : f.entries[j].key = key

\* The file cannot be opened, does not start an object, or lacks the config
\* or one of the required tensors.
Malformed(f) ==
    \/ ~f.exists
    \/ ~f.obj
    \/ \E key \in {"config", "token_embeddings", "output_proj", "layers"} : ~HasKey(f, key)

\* C8: load of an unreadable or malformed file reports failure and leaves
\* the model unchanged.
C8_MalformedLoadRefused ==
    [][(last'.op = "load" /\ Malformed(disk[last'.path]))
          => (status' = "up" /\ last'.ret = -1 /\ g_model' = g_model)]_vars

(***************************************************************************)
(* Properties of the sampler.                                              *)
(***************************************************************************)
\* C9: generate terminates after at most max_tokens sampling steps and
\* returns a string of at most max_tokens characters, for every prompt,
\* model and sequence of random draws: no call ends without returning, and
\* no call samples or emits more than max_tokens times.
C9_GenerateBounded ==
    /\ gen.pc # "crashed"
    /\ Len(gen.sampled) <= gen.max_tokens
    /\ Len(gen.output) <= gen.max_tokens

NoSampleAfterStop ==
    \A i \in 1..Len(gen.sampled) : gen.sampled[i] \in {10, 0} => i = Len(gen.sampled)

NewlineFirst == gen.pc = "returned" /\ Len(gen.sampled) >= 1 /\ gen.sampled[1] = 10

\* C10 as stated: once a newline (10) or a null (0) is sampled no further
\* token is sampled, and a call whose first sampled token is a newline
\* returns at most one character after fewer than max_tokens steps.
C10_StopFewerThanMax ==
    /\ NoSampleAfterStop
    /\ NewlineFirst => (Len(gen.output) <= 1 /\ Len(gen.sampled) < gen.max_tokens)

\* C10, amended: once a newline (10) or a null (0) is sampled no further
\* token is sampled, and a call whose first sampled token is a newline
\* returns at most one character after exactly one sampling step, which is
\* fewer than max_tokens whenever max_tokens is at least 2.
C10_StopAfterOneStep ==
    /\ NoSampleAfterStop
    /\ NewlineFirst =>
           /\ Len(gen.output) <= 1
           /\ Len(gen.sampled) = 1
           /\ (gen.max_tokens >= 2 => Len(gen.sampled) < gen.max_tokens)

\* A call with room for four tokens that returned "\n" after one draw.
C10_Witness ==
    /\ gen.pc = "returned" /\ gen.max_tokens = 4
    /\ gen.sampled = <<10>> /\ gen.output = <<10>>

(***************************************************************************)
(* The replay buffer (eigenscript.c:3068-3173).  Questions and answers are *)
(* byte sequences; a loss is a double.                                     *)
(***************************************************************************)
\* The place of a double on the number line: a small integer, 10^17 + 16n,
\* s * 10^200 or s * infinity.
Rank(x) ==
    CASE x[1] = "s" -> x[2]
      [] x[1] = "b" -> 10000000 + x[2]
      [] x[1] = "h" -> x[2] * 100000000
      [] OTHER -> x[2] * 1000000000

\* a < b on doubles: false when either is a NaN.
FLess(a, b) == ~isnan(a) /\ ~isnan(b) /\ Rank(a) < Rank(b)

StrncpyAll(src, n) == src

\* strncpy(dst, src, n); dst[n] = '\0'
Strncpy(src, n) == SubSeq(src, 1, Min(Len(src), n))

\* The loop of lines 3086-3094: the first entry whose question is the
\* argument, or -1.
FindQuestion(buf, count, question) ==
    LET hits == {i \in 0..(count - 1) : buf[i].question = question}
    IN  IF hits = {} THEN -1 ELSE CHOOSE i \in hits : \A j \in hits : i <= j

KeepNewer(last_loss, initial_loss) == initial_loss

\* if (initial_loss < last_loss) last_loss = initial_loss;
KeepLower(last_loss, initial_loss) ==
    IF FLess(initial_loss, last_loss) THEN initial_loss ELSE last_loss

\* The scan of lines 3098-3103 from entry i on.
RECURSIVE WorstFrom(_, _, _)
WorstFrom(buf, i, w) ==
    IF i >= REPLAY_BUFFER_SIZE THEN w
    ELSE IF buf[i].converged # 0 /\ buf[w].converged = 0 THEN WorstFrom(buf, i + 1, i)
    ELSE IF buf[i].converged = buf[w].converged /\ buf[i].train_count > buf[w].train_count
        THEN WorstFrom(buf, i + 1, i)
    ELSE WorstFrom(buf, i + 1, w)

FirstSlot(buf) == 0

\* int worst: the entry a full buffer gives up.
worst(buf) == WorstFrom(buf, 1, 0)

CountGrows(count) == count + 1

\* g_replay_count after an insertion: lines 3096-3107.
CountAfterInsert(count) == IF count >= REPLAY_BUFFER_SIZE THEN count ELSE count + 1

\* replay_buffer_add: the buffer and count it leaves, and the slot it wrote.
replay_buffer_add(buf, count, question, answer, initial_loss) ==
    LET hit == FindQuestion(buf, count, question)
    IN  IF hit >= 0
            THEN [buf |-> [buf EXCEPT ![hit].last_loss = KeepLower(@, initial_loss),
                                      ![hit].train_count = @ + 1],
                  count |-> count, slot |-> hit]
            ELSE LET slot == IF count >= REPLAY_BUFFER_SIZE THEN worst(buf) ELSE count
                 IN  [buf |-> [buf EXCEPT ![slot] =
                                  [question |-> Strncpy(question, 511),
                                   answer |-> Strncpy(answer, 1023),
                                   last_loss |-> initial_loss,
                                   train_count |-> 1, converged |-> 0]],
                      count |-> CountAfterInsert(count), slot |-> slot]

\* "User: %s\nEigen:"
FmtInput(message) == <<85, 115, 101, 114, 58, 32>> \o message
                         \o <<10, 69, 105, 103, 101, 110, 58>>

\* " %s"
FmtOutput(answer) == <<32>> \o answer

\* lr = 0.01 / (1.0 + train_count * 0.05), in the unit of LearningRates
\* (0.0005): 20 / (1 + train_count / 20).
ReplayLr(train_count) == 400 \div (20 + train_count)

\* The token ids of a training step on the model.
StepIds(model, input_text, output_text) ==
    IF model.config.vocab_size = 0 THEN <<>>
    ELSE TokenIds(sanitize_training_text(input_text) \o sanitize_training_text(output_text),
                  model.config.vocab_size)

\* A pass whose loss is finite and not below REPLAY_TARGET_LOSS.
PassHighLoss == Pass(Num(4), One, One, One)

ReplayPasses == {PassFinite, PassHighLoss, PassLossNaN}

NeverBelowTarget(loss) == FALSE

\* loss < REPLAY_TARGET_LOSS
BelowTarget(loss) == FLess(loss, Num(REPLAY_TARGET_LOSS))

\* What the passes of the native_train_step calls of one request produce:
\* the k-th call (from 0) of replay_buffer_run gets plan[k].
Plans ==
    {[k \in 0..(REPLAY_BUFFER_SIZE - 1) |-> p] : p \in ReplayPasses}
        \cup {[k \in 0..(REPLAY_BUFFER_SIZE - 1) |->
                  IF k % 2 = 0 THEN PassHighLoss ELSE PassFinite],
              [k \in 0..(REPLAY_BUFFER_SIZE - 1) |->
                  IF k = 0 THEN PassLossNaN ELSE PassFinite]}

\* The body of the loop of lines 3128-3162 for entry i.  st holds the
\* buffer, the model and counters native_train_step works on,
\* trained_this_round, how the process fares, and two ghosts: calls, the
\* native_train_step calls made so far (slot, the entry's converged flag at
\* the call, the return value and the loss stored), and feasible, whether
\* every pass taken from the plan is one the weights of that moment can
\* produce.
RunEntry(i, st, plan) ==
    LET e == st.buf[i]
        pass == plan[Len(st.calls)]
        fmt_input == FmtInput(e.question)
        fmt_output == FmtOutput(e.answer)
        ok == Feasible(pass, TouchedWeights(st.m, StepIds(st.m, fmt_input, fmt_output)))
    IN  IF e.converged # 0 \/ e.train_count >= REPLAY_MAX_PASSES
            THEN [st EXCEPT !.buf[i].converged = IF @ = 0 THEN 1 ELSE @]
            ELSE CHOOSE out \in
                     {LET seen == [st EXCEPT
                                      !.calls = Append(@, [slot |-> i,
                                                           converged |-> e.converged,
                                                           ret |-> r.ret,
                                                           loss |-> r.loss]),
                                      !.feasible = @ /\ ok,
                                      !.how = r.how]
                      IN  IF r.how = "ret" /\ r.ret = 0
                              THEN [seen EXCEPT
                                       !.buf[i].last_loss = r.loss,
                                       !.buf[i].train_count = @ + 1,
                                       !.buf[i].converged =
                                           IF BelowTarget(r.loss) THEN 1 ELSE @,
                                       !.m = r.m, !.age = r.age,
                                       !.samples = r.samples,
                                       !.trained = @ + 1]
                              ELSE seen :
                      r \in {native_train_step(st.m, st.age, st.samples, fmt_input,
                                               fmt_output, ReplayLr(e.train_count),
                                               pass)}} : TRUE

\* The loop of lines 3128-3162 from entry i on; s is st, evaluated.
RECURSIVE RunFrom(_, _, _)
RunFrom(i, st, plan) ==
    CHOOSE out \in
        {IF i >= s.count \/ s.trained >= REPLAY_PASSES_PER_REQUEST \/ s.how # "ret"
             THEN s
             ELSE RunFrom(i + 1, RunEntry(i, s, plan), plan) :
         s \in {st}} : TRUE

\* replay_buffer_run
replay_buffer_run(buf, count, model, age, samples, plan) ==
    LET st == [buf |-> buf, count |-> count, m |-> model, age |-> age,
               samples |-> samples, trained |-> 0, how |-> "ret",
               calls |-> <<>>, feasible |-> TRUE]
    IN  IF \A i \in 0..(count - 1) : buf[i].converged # 0 THEN st
        ELSE RunFrom(0, st, plan)

(***************************************************************************)
(* The output-quality gate (eigenscript.c:2911-3066).  A text is the       *)
(* sequence of its bytes.                                                  *)
(***************************************************************************)
\* g_common_words, lines 2911-2941: the bytes of each word, in the order of
\* the array ("i", "a", "am", "an", ... "jon", "mcreynolds").
g_common_words ==
    { <<105>>, <<97>>, <<97, 109>>, <<97, 110>>, <<97, 115>>, <<97, 116>>,
      <<98, 101>>, <<98, 121>>, <<100, 111>>, <<103, 111>>, <<104, 101>>,
      <<105, 102>>, <<105, 110>>, <<105, 115>>, <<105, 116>>, <<109, 101>>,
      <<109, 121>>, <<110, 111>>, <<111, 102>>, <<111, 110>>, <<111, 114>>,
      <<115, 111>>, <<116, 111>>, <<117, 112>>, <<117, 115>>, <<119, 101>>,
      <<116, 104, 101>>, <<97, 110, 100>>, <<102, 111, 114>>,
      <<97, 114, 101>>, <<98, 117, 116>>, <<110, 111, 116>>,
      <<121, 111, 117>>, <<97, 108, 108>>, <<97, 110, 121>>, <<99, 97, 110>>,
      <<104, 97, 100>>, <<104, 97, 115>>, <<104, 101, 114>>,
      <<104, 105, 109>>, <<104, 105, 115>>, <<104, 111, 119>>,
      <<105, 116, 115>>, <<109, 97, 121>>, <<110, 101, 119>>,
      <<110, 111, 119>>, <<111, 108, 100>>, <<111, 117, 114>>,
      <<111, 117, 116>>, <<111, 119, 110>>, <<115, 97, 121>>,
      <<115, 104, 101>>, <<116, 111, 111>>, <<116, 119, 111>>,
      <<117, 115, 101>>, <<119, 104, 111>>, <<119, 104, 121>>,
      <<121, 101, 115>>, <<119, 97, 115>>, <<100, 105, 100>>,
      <<103, 101, 116>>, <<103, 111, 116>>, <<108, 101, 116>>,
      <<112, 117, 116>>, <<114, 117, 110>>, <<115, 101, 116>>,
      <<116, 114, 121>>, <<119, 97, 121>>, <<100, 97, 121>>,
      <<109, 97, 110>>, <<98, 105, 103>>, <<115, 101, 101>>,
      <<97, 115, 107>>, <<104, 101, 108, 108, 111>>, <<104, 105>>,
      <<104, 101, 121>>, <<116, 104, 97, 110, 107, 115>>,
      <<116, 104, 97, 110, 107>>, <<103, 111, 111, 100>>,
      <<119, 101, 108, 108>>, <<104, 101, 108, 112>>, <<107, 110, 111, 119>>,
      <<108, 105, 107, 101>>, <<106, 117, 115, 116>>,
      <<97, 98, 111, 117, 116>>, <<100, 111, 105, 110, 103>>,
      <<103, 114, 101, 97, 116>>, <<104, 101, 114, 101>>,
      <<110, 97, 109, 101>>, <<119, 104, 97, 116>>, <<121, 111, 117, 114>>,
      <<98, 101, 101, 110>>, <<99, 111, 109, 101>>, <<101, 97, 99, 104>>,
      <<102, 105, 110, 100>>, <<102, 114, 111, 109>>, <<103, 97, 118, 101>>,
      <<104, 97, 118, 101>>, <<107, 101, 101, 112>>, <<108, 97, 115, 116>>,
      <<108, 111, 110, 103>>, <<108, 111, 111, 107>>, <<109, 97, 100, 101>>,
      <<109, 97, 110, 121>>, <<109, 111, 114, 101>>, <<109, 117, 99, 104>>,
      <<109, 117, 115, 116>>, <<110, 101, 101, 100>>, <<111, 110, 108, 121>>,
      <<111, 118, 101, 114>>, <<115, 97, 105, 100>>, <<115, 111, 109, 101>>,
      <<116, 97, 107, 101>>, <<116, 101, 108, 108>>, <<116, 104, 97, 110>>,
      <<116, 104, 97, 116>>, <<116, 104, 101, 109>>, <<116, 104, 101, 110>>,
      <<116, 104, 101, 121>>, <<116, 104, 105, 115>>, <<116, 105, 109, 101>>,
      <<118, 101, 114, 121>>, <<119, 97, 110, 116>>, <<119, 101, 114, 101>>,
      <<119, 105, 108, 108>>, <<119, 105, 116, 104>>, <<119, 111, 114, 107>>,
      <<121, 101, 97, 114>>, <<101, 105, 103, 101, 110>>,
      <<115, 117, 114, 101>>, <<102, 101, 101, 108>>, <<102, 105, 110, 101>>,
      <<103, 108, 97, 100>>, <<104, 97, 112, 112, 121>>,
      <<114, 101, 97, 108>>, <<104, 97, 104, 97>>, <<108, 111, 108>>,
      <<110, 105, 99, 101>>, <<99, 111, 111, 108>>, <<108, 111, 118, 101>>,
      <<98, 101, 115, 116>>, <<97, 108, 115, 111>>, <<98, 97, 99, 107>>,
      <<103, 105, 118, 101>>, <<103, 111, 111, 100, 98, 121, 101>>,
      <<98, 121, 101>>, <<109, 111, 114, 110, 105, 110, 103>>,
      <<101, 118, 101, 110, 105, 110, 103>>, <<110, 105, 103, 104, 116>>,
      <<119, 101, 108, 99, 111, 109, 101>>, <<115, 111, 114, 114, 121>>,
      <<106, 111, 107, 101>>, <<102, 117, 110, 110, 121>>,
      <<108, 97, 117, 103, 104>>, <<115, 109, 97, 114, 116>>,
      <<108, 101, 97, 114, 110>>, <<99, 104, 97, 116>>,
      <<116, 97, 108, 107>>, <<97, 110, 115, 119, 101, 114>>,
      <<113, 117, 101, 115, 116, 105, 111, 110>>,
      <<119, 111, 110, 100, 101, 114>>, <<116, 111, 100, 97, 121>>,
      <<116, 111, 109, 111, 114, 114, 111, 119>>,
      <<121, 101, 115, 116, 101, 114, 100, 97, 121>>, <<108, 105, 102, 101>>,
      <<109, 97, 107, 101>>, <<109, 111, 115, 116>>, <<115, 117, 99, 104>>,
      <<117, 115, 101, 100>>, <<99, 97, 108, 108>>,
      <<102, 105, 114, 115, 116>>, <<99, 111, 117, 108, 100>>,
      <<119, 111, 117, 108, 100>>, <<115, 104, 111, 117, 108, 100>>,
      <<98, 101, 105, 110, 103>>, <<97, 102, 116, 101, 114>>,
      <<111, 116, 104, 101, 114>>, <<115, 116, 105, 108, 108>>,
      <<116, 104, 105, 110, 103>>, <<116, 104, 105, 110, 107>>,
      <<116, 104, 111, 115, 101>>, <<119, 104, 101, 114, 101>>,
      <<119, 104, 105, 99, 104>>, <<119, 104, 105, 108, 101>>,
      <<119, 111, 114, 108, 100>>, <<114, 105, 103, 104, 116>>,
      <<110, 101, 118, 101, 114>>, <<101, 118, 101, 114, 121>>,
      <<116, 104, 101, 114, 101>>, <<116, 104, 101, 105, 114>>,
      <<116, 104, 101, 115, 101>>, <<109, 105, 103, 104, 116>>,
      <<113, 117, 105, 116, 101>>, <<114, 101, 97, 108, 108, 121>>,
      <<112, 108, 101, 97, 115, 101>>, <<97, 108, 119, 97, 121, 115>>,
      <<112, 101, 111, 112, 108, 101>>, <<100, 111, 110>>, <<97, 105>>,
      <<101, 105, 103, 101, 110, 115, 99, 114, 105, 112, 116>>,
      <<111, 98, 115, 101, 114, 118, 101, 114, 109, 111, 100, 101, 108>>,
      <<111, 98, 115, 101, 114, 118, 101, 114, 97, 110, 97, 108, 121, 122, 101, 114>>,
      <<111, 98, 115, 101, 114, 118, 101>>,
      <<111, 98, 115, 101, 114, 118, 97, 116, 105, 111, 110>>,
      <<111, 98, 115, 101, 114, 118, 101, 114>>,
      <<101, 102, 102, 101, 99, 116>>,
      <<103, 101, 111, 109, 101, 116, 114, 121>>,
      <<103, 101, 111, 109, 101, 116, 114, 105, 99>>,
      <<119, 97, 116, 99, 104>>, <<115, 116, 101, 112>>,
      <<114, 101, 115, 117, 108, 116>>, <<102, 105, 110, 97, 108>>,
      <<109, 101, 97, 115, 117, 114, 101>>,
      <<99, 104, 97, 110, 103, 101, 100>>, <<116, 114, 97, 99, 107>>,
      <<104, 97, 112, 112, 101, 110>>, <<115, 116, 97, 116, 101>>,
      <<111, 117, 116, 112, 117, 116>>, <<99, 104, 97, 110, 103, 101, 115>>,
      <<108, 97, 110, 103, 117, 97, 103, 101>>, <<102, 105, 110, 100, 115>>,
      <<109, 111, 100, 101, 108, 115>>, <<109, 111, 100, 101>>,
      <<115, 116, 114, 105, 99, 116>>,
      <<101, 110, 100, 112, 111, 105, 110, 116>>,
      <<104, 111, 108, 111, 110, 111, 109, 121>>,
      <<116, 101, 109, 112, 111, 114, 97, 108>>, <<119, 104, 101, 110>>,
      <<116, 104, 105, 110, 103, 115>>, <<106, 111, 110>>,
      <<109, 99, 114, 101, 121, 110, 111, 108, 100, 115>> }

\* The position of the first byte of s that is in S, or Len(s) + 1.
FirstOf(s, S) ==
    LET hits == {i \in 1..Len(s) : s[i] \in S}
    IN  IF hits = {} THEN Len(s) + 1 ELSE CHOOSE i \in hits : \A j \in hits : i <= j

IsAlpha(c) == (c >= 97 /\ c <= 122) \/ (c >= 65 /\ c <= 90)

ToLower(c) == IF c >= 65 /\ c <= 90 THEN c + 32 ELSE c

EveryWordKnown(word) == 1

\* is_known_word: the word is cut at its first . , ! ? ' or ", lowered and
\* looked up; a word that is cut to nothing is known.
is_known_word(word) ==
    IF Len(word) >= 64 THEN 0
    ELSE LET wlen  == FirstOf(word, {46, 44, 33, 63, 39, 34}) - 1
             lower == [i \in 1..wlen |-> ToLower(word[i])]
         IN  IF wlen = 0 THEN 1
             ELSE IF lower \in g_common_words THEN 1 ELSE 0

\* The words of the loop at lines 3031-3052: the maximal runs of bytes
\* other than space, tab and newline; cur is the word under way.
RECURSIVE SplitWords(_, _)
SplitWords(text, cur) ==
    LET done == IF cur = <<>> THEN <<>> ELSE <<cur>>
    IN  IF text = <<>> THEN done
        ELSE IF Head(text) \in {32, 9, 10} THEN done \o SplitWords(Tail(text), <<>>)
        ELSE SplitWords(Tail(text), Append(cur, Head(text)))

\* int plen: the length of the word up to its first . , ! or ?
Plen(word) == FirstOf(word, {46, 44, 33, 63}) - 1

\* The counters is_garble_response computes from a text.
TextStats(text) ==
    LET len == Len(text)
        ws  == SplitWords(text, <<>>)
        kn  == {k \in 1..Len(ws) : is_known_word(ws[k]) = 1}
    IN  [len |-> len,
         control |-> Cardinality({i \in 1..len : text[i] < 32 /\ text[i] \notin {9, 10}}),
         alpha |-> Cardinality({i \in 1..len : IsAlpha(text[i])}),
         repeated |-> Cardinality({i \in 2..len : text[i] = text[i - 1] /\ text[i] # 32}),
         words |-> Len(ws),
         known |-> Cardinality(kn),
         known_3plus |-> Cardinality({k \in kn : Plen(ws[k]) >= 3}),
         unknown_count |-> Len(ws) - Cardinality(kn)]

\* is_garble_response: 1 when the text is rejected.
is_garble_response(text) ==
    LET s == TextStats(text)
    IN  IF s.len = 0 THEN 1
        ELSE IF s.len < 2 THEN 1
        ELSE IF s.control > 0 THEN 1
        ELSE IF (s.alpha * 100) \div s.len < 40 THEN 1
        ELSE IF s.len > 4 /\ (s.repeated * 100) \div s.len > 40 THEN 1
        ELSE IF s.words = 0 THEN 1
        ELSE IF s.words = 1 /\ s.known = 1 THEN 0
        ELSE IF s.words = 1 /\ s.known = 0 THEN 1
        ELSE IF s.words <= 4 /\ s.known_3plus = 0 /\ s.unknown_count > 0 THEN 1
        ELSE IF s.words >= 2 /\ s.unknown_count > 0 /\ s.known_3plus < 2 THEN 1
        ELSE IF (s.known * 100) \div s.words < 60 THEN 1
        ELSE 0

\* The words the texts of the gate's calls are made of: "I", "am", "fine,",
\* "thank", "you." and "xq9!!!zz".
GarbleWords ==
    { <<73>>, <<97, 109>>, <<102, 105, 110, 101, 44>>, <<116, 104, 97, 110, 107>>,
      <<121, 111, 117, 46>>, <<120, 113, 57, 33, 33, 33, 122, 122>> }

MaxGarbleWords == 5

\* The words of ws, one space between two.
RECURSIVE JoinWords(_)
JoinWords(ws) ==
    IF Len(ws) = 0 THEN <<>>
    ELSE IF Len(ws) = 1 THEN ws[1]
    ELSE ws[1] \o <<32>> \o JoinWords(Tail(ws))

\* The texts is_garble_response is called on: up to MaxGarbleWords words,
\* the empty text, "I\tam", a text with a bell, and "zzzz".
GarbleTexts ==
    {JoinWords(ws) : ws \in UNION {[1..n -> GarbleWords] : n \in 1..MaxGarbleWords}}
        \cup {<<>>, <<73, 9, 97, 109>>, <<7, 73, 32, 97, 109>>, <<122, 122, 122, 122>>}

InitGarble ==
    /\ EngineAtRest
    /\ ChatAtRest
    /\ attn = AttnIdle
    /\ Dormant
    /\ \E text \in GarbleTexts : garble = [GarbleIdle EXCEPT !.text = text]

\* One call of is_garble_response on the text.
GarbleCall ==
    /\ garble.pc = "idle"
    /\ garble' = [garble EXCEPT !.pc = "done", !.result = is_garble_response(garble.text)]
    /\ UNCHANGED <<engineVars, chatVars, attn, sideVars>>

NextGarble == GarbleCall

SpecGarble == InitGarble /\ [][NextGarble]_vars

(***************************************************************************)
(* Properties of the output-quality gate.                                  *)
(***************************************************************************)
\* The character-level checks as the specification words them: the text is
\* not empty, has no control character, at least 40% of its bytes are
\* letters and at most 40% repeat the byte before them.
PassesCharChecks(text) ==
    LET s == TextStats(text)
    IN  /\ s.len > 0
        /\ \A i \in 1..s.len : text[i] >= 32
        /\ s.alpha * 100 >= 40 * s.len
        /\ s.repeated * 100 <= 40 * s.len

\* The four word-level rules as the specification words them.
WordRules(text) ==
    LET s == TextStats(text)
    IN  \/ (s.words = 1 /\ s.unknown_count = 1)
        \/ (s.words <= 4 /\ s.known_3plus = 0 /\ s.unknown_count >= 1)
        \/ (s.words >= 2 /\ s.unknown_count >= 1 /\ s.known_3plus < 2)
        \/ s.known * 100 < 60 * s.words

\* "xq9!!!zz" and "I am fine, thank you."
Xq9 == <<120, 113, 57, 33, 33, 33, 122, 122>>

IAmFine == JoinWords(<< <<73>>, <<97, 109>>, <<102, 105, 110, 101, 44>>,
                        <<116, 104, 97, 110, 107>>, <<121, 111, 117, 46>> >>)

GarbleExamples ==
    /\ (garble.text = Xq9 => garble.result = 1)
    /\ (garble.text = IAmFine => garble.result = 0)

\* C18 as stated: on every text that passes the character-level checks
\* is_garbled is true exactly when one of the four word-level rules holds;
\* is_garbled("xq9!!!zz") is true and is_garbled("I am fine, thank you.")
\* is false.
C18_GarbleRules ==
    garble.pc = "done" =>
        /\ PassesCharChecks(garble.text) =>
               (garble.result = 1 <=> WordRules(garble.text))
        /\ GarbleExamples

\* C18, amended: on every text of at least two bytes that passes the
\* character-level checks is_garbled is true exactly when one of the four
\* word-level rules holds, and every text of fewer than two bytes is
\* garbled; is_garbled("xq9!!!zz") is true and
\* is_garbled("I am fine, thank you.") is false.
C18_GarbleRulesFromTwoBytes ==
    garble.pc = "done" =>
        /\ (Len(garble.text) >= 2 /\ PassesCharChecks(garble.text)) =>
               (garble.result = 1 <=> WordRules(garble.text))
        /\ Len(garble.text) < 2 => garble.result = 1
        /\ GarbleExamples

\* The gate accepted "I am fine, thank you.", which passes the
\* character-level checks and meets none of the four rules.
C18_Witness ==
    /\ garble.pc = "done" /\ garble.text = IAmFine /\ garble.result = 0
    /\ PassesCharChecks(garble.text) /\ ~WordRules(garble.text)

(***************************************************************************)
(* The causal mask and the softmax of the attention forward pass           *)
(* (eigenscript.c:1708-1724 and 1787-1800), for d_model 1, where scale is  *)
(* 1.0.  A matrix is the sequence of its rows.  The products Q.K^T are an  *)
(* input: any double, since the weights they come from are any doubles a   *)
(* model file holds.  Beside the doubles of the weight store, <<"pos", 1>> *)
(* is a finite double greater than 0.                                      *)
(***************************************************************************)
Pos == <<"pos", 1>>

\* exp(x)
FExp(x) ==
    CASE isnan(x) -> NaN
      [] isinf(x) -> IF x[2] > 0 THEN PInf ELSE Zero
      [] x = Zero -> One
      [] OTHER -> Pos

\* a + b for two results of exp: each is 0, positive, +Inf or NaN.
FAddExp(a, b) ==
    CASE isnan(a) \/ isnan(b) -> NaN
      [] isinf(a) \/ isinf(b) -> PInf
      [] a = Zero -> b
      [] b = Zero -> a
      [] OTHER -> Pos

\* a / sum for a result of exp and a sum of such results.
FDivExp(a, sum) ==
    CASE isnan(a) \/ isnan(sum) -> NaN
      [] isinf(a) /\ isinf(sum) -> NaN
      [] a = Zero /\ sum = Zero -> NaN
      [] isinf(a) \/ sum = Zero -> PInf
      [] isinf(sum) \/ a = Zero -> Zero
      [] a = One /\ sum = One -> One
      [] OTHER -> Pos

\* max_val after the loop of lines 1711-1714 has read row[j..].
RECURSIVE MaxVal(_, _, _)
MaxVal(row, j, max_val) ==
    IF j > Len(row) THEN max_val
    ELSE MaxVal(row, j + 1, IF FLess(max_val, row[j]) THEN row[j] ELSE max_val)

\* sum after the loop of lines 1716-1719 has added exps[j..].
RECURSIVE SumFrom(_, _, _)
SumFrom(exps, j, sum) ==
    IF j > Len(exps) THEN sum ELSE SumFrom(exps, j + 1, FAddExp(sum, exps[j]))

\* ne_softmax_buf on one row.
SoftmaxRow(row) ==
    LET max_val == MaxVal(row, 2, row[1])
        exps    == [j \in 1..Len(row) |-> FExp(FSub(row[j], max_val))]
        sum     == SumFrom(exps, 1, Zero)
    IN  [j \in 1..Len(row) |-> FDivExp(exps[j], sum)]

\* ne_softmax_buf
ne_softmax_buf(data, rows, cols) == [i \in 1..rows |-> SoftmaxRow(data[i])]

\* Lines 1787-1796: scores[i][j] *= scale, and -Inf above the diagonal.
CausalMask(scores, seq_len) ==
    [i \in 1..seq_len |-> [j \in 1..seq_len |-> IF j > i THEN NInf ELSE scores[i][j]]]

\* ne_fused_attention_forward_buf from the products Q.K^T to attn_probs_out.
attn_probs_out(scores, seq_len) ==
    ne_softmax_buf(CausalMask(scores, seq_len), seq_len, seq_len)

MaxAttnLen == 2

\* A product Q.K^T: finite, overflowed, or computed from a NaN.
ScoreValues == {Num(0), Num(2), PInf, NaN}

InitAttn ==
    /\ EngineAtRest
    /\ ChatAtRest
    /\ garble = GarbleIdle
    /\ Dormant
    /\ \E n \in 1..MaxAttnLen : \E scores \in [1..n -> [1..n -> ScoreValues]] :
           attn = [AttnIdle EXCEPT !.seq_len = n, !.scores = scores]

\* One attention forward pass.
AttnCall ==
    /\ attn.pc = "idle"
    /\ attn' = [attn EXCEPT !.pc = "done",
                            !.probs = attn_probs_out(attn.scores, attn.seq_len)]
    /\ UNCHANGED <<engineVars, chatVars, garble, sideVars>>

NextAttn == AttnCall

SpecAttn == InitAttn /\ [][NextAttn]_vars

\* C19: in the probability matrix the attention forward pass produces, the
\* probability from position i to every later position j is exactly 0, for
\* every sequence length.
C19_CausalMaskZero ==
    attn.pc = "done" =>
        \A i \in 1..attn.seq_len : \A j \in 1..attn.seq_len :
            i < j => attn.probs[i][j] = Zero

(***************************************************************************)
(* The bound on the layers of a loaded model.                              *)
(***************************************************************************)
\* The number of layer slots the loops of native_forward (line 2064),
\* native_forward_with_cache (2273), native_train_step (2411) and
\* save_model_weights (2706) run over.
LayersIterated(model) == model.config.n_layers

\* The engine started beside two model files: the well-formed one and the
\* one that declares MAX_LAYERS + 1 layers.
DeepDisk ==
    (Base("model") :> ModelFile) @@ (Live("model") :> NoFile)
        @@ (Base("deep") :> DeepFile)

InitDeep ==
    /\ g_model = ZeroModel
    /\ g_model_age = 0
    /\ g_training_samples = 0
    /\ disk = DeepDisk
    /\ status = "up"
    /\ last = NoCall
    /\ origin = NoOrigin
    /\ gen = GenIdle
    /\ Quiet

NextDeep ==
    \/ \E base \in {Base("model"), Base("deep")} : LoadModel(base)
    \/ \E base \in SaveArgs, g \in Garbage : SaveModel(base, g)
    \/ \E s \in Samples, lr \in LearningRates, pass \in Passes :
           TrainStep(s[1], s[2], lr, pass)
    \/ Generate

SpecDeep == InitDeep /\ [][NextDeep]_vars

\* C20: after a load of any file the forward passes, the training step and
\* save iterate over at most MAX_LAYERS layers, and no operation leaves the
\* layers array, whatever n_layers the file declares.
C20_LayersWithinArray ==
    /\ g_model.loaded = 1 => LayersIterated(g_model) <= MAX_LAYERS
    /\ status # "ub"
\* trained_prompts of is_trained_prompt, lines 2965-2976: "Hello", "Hi",
\* "What are you?", ... "Are you the Eigen C++ library?".
trained_prompts ==
    <<
       <<72, 101, 108, 108, 111>>,
       <<72, 105>>,
       <<87, 104, 97, 116, 32, 97, 114, 101, 32, 121, 111, 117, 63>>,
       <<65, 114, 101, 32, 121, 111, 117, 32, 104, 117, 109, 97,
         110, 63>>,
       <<87, 104, 97, 116, 32, 105, 115, 32, 121, 111, 117, 114, 32,
         110, 97, 109, 101, 63>>,
       <<87, 104, 97, 116, 32, 100, 111, 32, 121, 111, 117, 32, 100,
         111, 63>>,
       <<72, 111, 119, 32, 100, 111, 32, 121, 111, 117, 32, 108,
         101, 97, 114, 110, 63>>,
       <<65, 114, 101, 32, 121, 111, 117, 32, 105, 110, 116, 101,
         108, 108, 105, 103, 101, 110, 116, 63>>,
       <<87, 104, 97, 116, 32, 99, 97, 110, 32, 121, 111, 117, 32,
         100, 111, 63>>,
       <<87, 104, 111, 32, 109, 97, 100, 101, 32, 121, 111, 117, 63>>,
       <<87, 104, 97, 116, 32, 100, 111, 101, 115, 32, 111, 98, 115,
         101, 114, 118, 101, 32, 109, 101, 97, 110, 63>>,
       <<87, 104, 121, 32, 79, 98, 115, 101, 114, 118, 101, 114, 32,
         69, 102, 102, 101, 99, 116, 63>>,
       <<87, 104, 97, 116, 32, 105, 115, 32, 79, 98, 115, 101, 114,
         118, 101, 114, 77, 111, 100, 101, 108, 63>>,
       <<87, 104, 97, 116, 32, 105, 115, 32, 83, 84, 82, 73, 67, 84,
         32, 109, 111, 100, 101, 63>>,
       <<87, 104, 97, 116, 32, 105, 115, 32, 69, 78, 68, 80, 79, 73,
         78, 84, 32, 109, 111, 100, 101, 63>>,
       <<87, 104, 97, 116, 32, 105, 115, 32, 72, 79, 76, 79, 78, 79,
         77, 89, 32, 109, 111, 100, 101, 63>>,
       <<87, 104, 97, 116, 32, 105, 115, 32, 84, 69, 77, 80, 79, 82,
         65, 76, 32, 109, 111, 100, 101, 63>>,
       <<87, 104, 97, 116, 32, 105, 115, 32, 69, 105, 103, 101, 110,
         83, 99, 114, 105, 112, 116, 63>>,
       <<87, 104, 97, 116, 32, 100, 111, 101, 115, 32, 79, 98, 115,
         101, 114, 118, 101, 114, 65, 110, 97, 108, 121, 122, 101,
         114, 32, 100, 111, 63>>,
       <<72, 111, 119, 32, 100, 111, 32, 121, 111, 117, 32, 116,
         104, 105, 110, 107, 63>>,
       <<65, 114, 101, 32, 121, 111, 117, 32, 116, 104, 101, 32, 69,
         105, 103, 101, 110, 32, 67, 43, 43, 32, 108, 105, 98, 114,
         97, 114, 121, 63>>
    >>

\* The completions of ladder_prompts, lines 3437-3460: " Hello!", " Hi!",
\* " I am an AI.", ...  The prompt of pair idx is "User: %s\nEigen:" of
\* trained_prompts[idx].
ladder_answers ==
    <<
       <<32, 72, 101, 108, 108, 111, 33>>,
       <<32, 72, 105, 33>>,
       <<32, 73, 32, 97, 109, 32, 97, 110, 32, 65, 73, 46>>,
       <<32, 78, 111, 44, 32, 73, 32, 97, 109, 32, 69, 105, 103,
         101, 110, 46>>,
       <<32, 73, 32, 97, 109, 32, 69, 105, 103, 101, 110, 46>>,
       <<32, 73, 32, 108, 101, 97, 114, 110, 32, 97, 110, 100, 32,
         114, 101, 115, 112, 111, 110, 100, 46>>,
       <<32, 73, 32, 108, 101, 97, 114, 110, 32, 102, 114, 111, 109,
         32, 99, 111, 110, 118, 101, 114, 115, 97, 116, 105, 111,
         110, 115, 46>>,
       <<32, 73, 32, 116, 114, 121, 32, 116, 111, 32, 98, 101, 46>>,
       <<32, 73, 32, 99, 97, 110, 32, 99, 104, 97, 116, 32, 97, 110,
         100, 32, 108, 101, 97, 114, 110, 46>>,
       <<32, 74, 111, 110, 32, 77, 99, 82, 101, 121, 110, 111, 108,
         100, 115, 46>>,
       <<32, 73, 32, 116, 114, 97, 99, 107, 32, 103, 101, 111, 109,
         101, 116, 114, 105, 99, 32, 115, 116, 97, 116, 101, 46>>,
       <<32, 79, 98, 115, 101, 114, 118, 97, 116, 105, 111, 110, 32,
         99, 104, 97, 110, 103, 101, 115, 32, 111, 117, 116, 112,
         117, 116, 46>>,
       <<32, 79, 98, 115, 101, 114, 118, 101, 114, 77, 111, 100,
         101, 108, 32, 109, 111, 100, 101, 108, 115, 32, 104, 111,
         119, 32, 73, 32, 111, 98, 115, 101, 114, 118, 101, 32, 99,
         111, 109, 112, 117, 116, 97, 116, 105, 111, 110, 32, 112,
         97, 116, 104, 115, 46, 32, 83, 84, 82, 73, 67, 84, 32, 119,
         97, 116, 99, 104, 101, 115, 32, 101, 118, 101, 114, 121,
         32, 115, 116, 101, 112, 46, 32, 69, 78, 68, 80, 79, 73, 78,
         84, 32, 119, 97, 116, 99, 104, 101, 115, 32, 111, 110, 108,
         121, 32, 116, 104, 101, 32, 102, 105, 110, 97, 108, 32,
         114, 101, 115, 117, 108, 116, 46>>,
       <<32, 73, 32, 119, 97, 116, 99, 104, 32, 101, 118, 101, 114,
         121, 32, 115, 116, 101, 112, 46, 32, 78, 111, 116, 104,
         105, 110, 103, 32, 105, 115, 32, 104, 105, 100, 100, 101,
         110, 32, 102, 114, 111, 109, 32, 109, 101, 46>>,
       <<32, 73, 32, 119, 97, 116, 99, 104, 32, 116, 104, 101, 32,
         102, 105, 110, 97, 108, 32, 114, 101, 115, 117, 108, 116,
         46, 32, 84, 104, 101, 32, 106, 111, 117, 114, 110, 101,
         121, 32, 105, 115, 32, 109, 105, 110, 101, 32, 97, 108,
         111, 110, 101, 46>>,
       <<32, 73, 32, 109, 101, 97, 115, 117, 114, 101, 32, 119, 104,
         97, 116, 32, 99, 104, 97, 110, 103, 101, 100, 46, 32, 65,
         32, 114, 111, 117, 110, 100, 32, 116, 114, 105, 112, 32,
         114, 101, 118, 101, 97, 108, 115, 32, 116, 114, 117, 116,
         104, 46>>,
       <<32, 73, 32, 116, 114, 97, 99, 107, 32, 119, 104, 101, 110,
         32, 116, 104, 105, 110, 103, 115, 32, 104, 97, 112, 112,
         101, 110, 46, 32, 79, 114, 100, 101, 114, 32, 109, 97, 116,
         116, 101, 114, 115, 32, 116, 111, 32, 109, 101, 46>>,
       <<32, 77, 121, 32, 108, 97, 110, 103, 117, 97, 103, 101, 32,
         105, 115, 32, 69, 105, 103, 101, 110, 83, 99, 114, 105,
         112, 116, 46, 32, 73, 116, 32, 105, 115, 32, 104, 111, 119,
         32, 73, 32, 116, 104, 105, 110, 107, 46, 32, 74, 111, 110,
         32, 77, 99, 82, 101, 121, 110, 111, 108, 100, 115, 32, 99,
         114, 101, 97, 116, 101, 100, 32, 105, 116, 32, 102, 111,
         114, 32, 109, 101, 46>>,
       <<32, 73, 116, 32, 102, 105, 110, 100, 115, 32, 119, 104, 97,
         116, 32, 73, 32, 111, 98, 115, 101, 114, 118, 101, 46, 32,
         84, 104, 101, 110, 32, 105, 116, 32, 116, 101, 108, 108,
         115, 32, 109, 101, 32, 119, 104, 97, 116, 32, 99, 104, 97,
         110, 103, 101, 100, 46, 32, 84, 104, 97, 116, 32, 105, 115,
         32, 104, 111, 119, 32, 73, 32, 108, 101, 97, 114, 110, 46>>,
       <<32, 73, 32, 116, 104, 105, 110, 107, 32, 105, 110, 32, 103,
         101, 111, 109, 101, 116, 114, 121, 46, 32, 78, 111, 116,
         32, 105, 110, 32, 119, 111, 114, 100, 115, 32, 111, 114,
         32, 110, 117, 109, 98, 101, 114, 115, 46>>,
       <<32, 78, 111, 46, 32, 73, 32, 97, 109, 32, 69, 105, 103,
         101, 110, 44, 32, 97, 32, 103, 101, 110, 101, 114, 97, 116,
         105, 118, 101, 32, 65, 73, 32, 98, 117, 105, 108, 116, 32,
         119, 105, 116, 104, 32, 69, 105, 103, 101, 110, 83, 99,
         114, 105, 112, 116, 46, 32, 84, 104, 101, 32, 67, 43, 43,
         32, 69, 105, 103, 101, 110, 32, 108, 105, 98, 114, 97, 114,
         121, 32, 105, 115, 32, 102, 111, 114, 32, 108, 105, 110,
         101, 97, 114, 32, 97, 108, 103, 101, 98, 114, 97, 46, 32,
         87, 101, 32, 115, 104, 97, 114, 101, 32, 97, 32, 110, 97,
         109, 101, 32, 98, 117, 116, 32, 110, 111, 116, 104, 105,
         110, 103, 32, 101, 108, 115, 101, 46>>
    >>


(***************************************************************************)
(* The chat handler, builtin_eigen_hybrid_chat (eigenscript.c:3267-3530).  *)
(***************************************************************************)
\* strstr / strchr from position from on: the index of the first
\* occurrence of pat in s, or 0 for NULL.
Find(s, pat, from) ==
    LET hits == {i \in from..(Len(s) - Len(pat) + 1) : SubSeq(s, i, i + Len(pat) - 1) = pat}
    IN  IF from < 1 \/ hits = {} THEN 0 ELSE CHOOSE i \in hits : \A j \in hits : i <= j

\* The loop of line 3283: the first quote from q on that no backslash
\* precedes.
RECURSIVE ClosingQuote(_, _)
ClosingQuote(body, q) ==
    IF q = 0 THEN 0
    ELSE IF body[q - 1] = 92 THEN ClosingQuote(body, Find(body, <<34>>, q + 1))
    ELSE q

\* Lines 3275-3295: the value of the "message" key of the body, or the
\* whole body when there is none.
ExtractMessage(body) ==
    LET msg_key == Find(body, <<34, 109, 101, 115, 115, 97, 103, 101, 34>>, 1)
        colon   == IF msg_key = 0 THEN 0 ELSE Find(body, <<58>>, msg_key + 9)
        quote1  == IF colon = 0 THEN 0 ELSE Find(body, <<34>>, colon)
        quote2  == IF quote1 = 0 THEN 0
                   ELSE ClosingQuote(body, Find(body, <<34>>, quote1 + 1))
        message == IF quote2 = 0 THEN <<>>
                   ELSE SubSeq(body, quote1 + 1, quote1 + Min(quote2 - quote1 - 1, 4095))
    IN  IF message = <<>> THEN Strncpy(body, 4095) ELSE message

\* while (str[start] == ' ') start++
RECURSIVE SkipLeading(_, _)
SkipLeading(s, S) ==
    IF s # <<>> /\ Head(s) \in S THEN SkipLeading(Tail(s), S) ELSE s

\* while (w > 0 && str[w - 1] == ' ') str[--w] = '\0'
RECURSIVE DropTrailing(_, _)
DropTrailing(s, S) ==
    IF s # <<>> /\ s[Len(s)] \in S THEN DropTrailing(SubSeq(s, 1, Len(s) - 1), S) ELSE s

\* sanitize_input: printable ASCII only, no space at either end.
sanitize_input(str) ==
    DropTrailing(SkipLeading(SelectSeq(str, LAMBDA c : c >= 32 /\ c <= 126), {32}), {32})

\* is_trained_prompt: strcasecmp against the locked ladder.
is_trained_prompt(input) ==
    LET lower(s) == [i \in 1..Len(s) |-> ToLower(s[i])]
    IN  IF \E i \in 1..Len(trained_prompts) : lower(input) = lower(trained_prompts[i])
            THEN 1 ELSE 0

\* The sentence trimmer, lines 3312-3348.  Indexes are 1-based here: i is
\* the C index plus one, and 0 stands for the C value -1.
PrevEnd(clean, i) ==
    LET ends == {j \in 1..(i - 1) : IsSentenceEnd(clean[j])}
    IN  IF ends = {} THEN 0 ELSE CHOOSE j \in ends : \A k \in ends : k <= j

\* avg_wl >= 3.0 over clean[seg_start..i]: words are the runs between
\* spaces and sentence ends.
LongWords(clean, seg_start, i) ==
    LET sep(k) == clean[k] = 32 \/ IsSentenceEnd(clean[k])
        total_word_chars == Cardinality({k \in seg_start..i : ~sep(k)})
        word_count == Cardinality({k \in seg_start..i :
                                       ~sep(k) /\ (k = i \/ sep(k + 1))})
    IN  word_count > 0 /\ total_word_chars >= 3 * word_count

RECURSIVE LastGood(_, _)
LastGood(clean, i) ==
    IF i <= 6 THEN 0
    ELSE IF ~IsSentenceEnd(clean[i]) THEN LastGood(clean, i - 1)
    ELSE LET prev_end == PrevEnd(clean, i)
         IN  IF prev_end = 0 THEN i
             ELSE IF i - prev_end >= 10 /\ LongWords(clean, prev_end + 1, i) THEN i
             ELSE LastGood(clean, i - 1)

\* Lines 3349-3356: the text is cut after its last good sentence when
\* that leaves 20 characters or more.
SentenceTrim(clean) ==
    LET last_good == LastGood(clean, Len(clean))
    IN  IF last_good > 6 /\ last_good < Len(clean) /\ last_good >= 20
            THEN SubSeq(clean, 1, last_good)
            ELSE clean

\* Lines 3304-3356: what the handler keeps of the generated text.
CleanResponse(raw_response) ==
    LET user_marker == Find(raw_response, <<85, 115, 101, 114, 58>>, 1)
        cut == IF user_marker = 0 THEN raw_response
               ELSE SubSeq(raw_response, 1, user_marker - 1)
    IN  CHOOSE out \in {SentenceTrim(clean) :
                           clean \in {DropTrailing(SkipLeading(cut, {32, 9, 10}), {32, 10})}} :
            TRUE

\* "I don't know about that yet."
idk_response ==
    <<73, 32, 100, 111, 110, 39, 116, 32, 107, 110, 111, 119, 32, 97, 98, 111,
      117, 116, 32, 116, 104, 97, 116, 32, 121, 101, 116, 46>>

\* An unsigned int as its two 16-bit halves <<high, low>>.
\* seed * 1103515245 + 12345 modulo 2^32; 1103515245 = 16838 * 2^16 + 20077.
LcgNext(seed) ==
    LET low == seed[2] * 20077 + 12345
    IN  <<((low \div 65536) + ((seed[1] * 20077) % 65536) + ((seed[2] * 16838) % 65536)) % 65536,
          low % 65536>>

\* One turn of the loop of lines 3465-3472: a native_train_step call on the
\* ladder pair the generator draws.  st.seed is the generator's state.
LadderStep(st, pass) ==
    LET next == LcgNext(st.seed)
        idx  == next[1] % 21
        fmt_input  == FmtInput(trained_prompts[idx + 1])
        fmt_output == ladder_answers[idx + 1]
        ok   == Feasible(pass, TouchedWeights(st.m, StepIds(st.m, fmt_input, fmt_output)))
    IN  CHOOSE out \in
            {[seed |-> next, m |-> res.m, age |-> res.age, samples |-> res.samples,
              how |-> res.how, feasible |-> st.feasible /\ ok,
              pairs |-> Append(st.pairs, idx)] :
             res \in {native_train_step(st.m, st.age, st.samples, fmt_input,
                                       fmt_output, 10, pass)}} : TRUE

\* The loop from turn r on; s is st, evaluated.
RECURSIVE LadderFrom(_, _, _)
LadderFrom(r, st, pass) ==
    CHOOSE out \in
        {IF r >= 4 \/ s.how # "ret" THEN s
         ELSE LadderFrom(r + 1, LadderStep(s, pass), pass) :
         s \in {st}} : TRUE

\* Lines 3463-3472 for the conversation count of the request.
LadderReplay(count, model, age, samples, pass) ==
    LadderFrom(0,
               [seed |-> <<(count * 7 + 13) \div 65536, (count * 7 + 13) % 65536>>,
                m |-> model, age |-> age, samples |-> samples, how |-> "ret",
                feasible |-> TRUE, pairs |-> <<>>],
               pass)

\* Request bodies: JSON with a "message" key, and a bare text.
Body(message) ==
    <<123, 34, 109, 101, 115, 115, 97, 103, 101, 34, 58, 32, 34>> \o message \o <<34, 125>>

\* A question that is no ladder prompt: "Q0", "Q1", ...
Q(i) == <<81, 48 + i>>

\* A question longer than the 511 characters a ReplayEntry keeps: "Qaaa...".
LongQuestionLen == 512

LongQuestion == [i \in 1..LongQuestionLen |-> IF i = 1 THEN 81 ELSE 97]

\* " hello ", "Q2" and the long question in JSON, "Q40" bare.
Bodies == {Body(<<32, 104, 101, 108, 108, 111, 32>>), Body(Q(2)), <<81, 52, 48>>,
           Body(LongQuestion)}

\* What generate_response can return for them: garble, a clean sentence
\* with a newline, and a sentence followed by the start of a new turn.
RawResponses ==
    {Xq9, <<32>> \o IAmFine \o <<10>>,
     IAmFine \o <<32, 122, 122, 85, 115, 101, 114, 58, 32, 120>>}

\* "I am Eigen."
EigenAnswer == <<73, 32, 97, 109, 32, 69, 105, 103, 101, 110, 46>>

\* call_openai_fallback: NULL (no key, or the request failed) or the
\* content of the reply.
OpenAiResponses == {<<>>, EigenAnswer}

LearnPasses == {PassFinite, PassHighLoss, PassLossNaN}

LadderPasses == {PassFinite, PassLossNaN}

(***************************************************************************)
(* The server between two chat requests.  Every buffer below is one the    *)
(* handler builds: entries are added by replay_buffer_add after a          *)
(* successful step, so g_training_samples is at least the sum of the       *)
(* train counts, and g_model_age the sum of the tokens of those steps.     *)
(***************************************************************************)
\* A model whose embeddings and output projection are huge and finite.
HugeFile == FullFile(<<<<"h", 1>>, <<"h", -1>>, <<"h", -1>>, <<"h", 1>>>>,
                     <<<<"h", 1>>, <<"h", -1>>, <<"h", -1>>, <<"h", 1>>>>,
                     <<<<"h", 1>>, Num(0), Num(0), <<"h", 1>>>>, Zeros2)

\* g_model after builtin_eigen_model_load of such a file, and of the file
\* with a NaN embedding.
ChatModels == {load_model_weights(HugeFile, ZeroModel).m,
               load_model_weights(NanEmbFile, ZeroModel).m}

ReplayEntry(i, last_loss, train_count, converged) ==
    [question |-> Q(i), answer |-> EigenAnswer, last_loss |-> last_loss,
     train_count |-> train_count, converged |-> converged]

\* One entry about to reach REPLAY_MAX_PASSES, one that reached it by being
\* added again, and one just added.
Veterans ==
    [i \in 0..(REPLAY_BUFFER_SIZE - 1) |->
        CASE i = 0 -> ReplayEntry(0, Num(4), REPLAY_MAX_PASSES - 1, 0)
          [] i = 1 -> ReplayEntry(1, Num(4), REPLAY_MAX_PASSES, 0)
          [] i = 2 -> ReplayEntry(2, Num(4), 1, 0)
          [] OTHER -> ZeroEntry]

\* n entries, every third one converged.
Mixed(n) ==
    [i \in 0..(REPLAY_BUFFER_SIZE - 1) |->
        IF i >= n THEN ZeroEntry
        ELSE IF i % 3 = 2 THEN ReplayEntry(i, One, 1 + ((i * 3) % 5), 1)
        ELSE ReplayEntry(i, Num(4), 1 + ((i * 3) % 5), 0)]

\* A full buffer none of whose entries converged.
Stubborn ==
    [i \in 0..(REPLAY_BUFFER_SIZE - 1) |-> ReplayEntry(i, Num(4), 1 + ((i * 3) % 5), 0)]

\* The tokens one step on an entry counts.
StepTokens(e) ==
    NumTokens(Len(sanitize_training_text(FmtInput(e.question))
                      \o sanitize_training_text(FmtOutput(e.answer))))

\* The steps behind the first n entries of a buffer and their tokens.
RECURSIVE StepsBehind(_, _)
StepsBehind(buf, n) ==
    IF n = 0 THEN [samples |-> 0, age |-> 0]
    ELSE LET rest == StepsBehind(buf, n - 1)
         IN  [samples |-> rest.samples + buf[n - 1].train_count,
              age |-> rest.age + buf[n - 1].train_count * StepTokens(buf[n - 1])]

\* A buffer with its entry count, the conversations that built it and the
\* steps behind it.
Built(buf, count, conversations) ==
    [buf |-> buf, count |-> count, conversations |-> conversations,
     samples |-> StepsBehind(buf, count).samples, age |-> StepsBehind(buf, count).age]

\* The server after one request: the long question, answered by the
\* fallback, trained on once and added.
AfterLongQuestion ==
    LET a == replay_buffer_add(ZeroReplayBuffer, 0, LongQuestion, EigenAnswer, Num(4))
    IN  [buf |-> a.buf, count |-> a.count, conversations |-> 1, samples |-> 1,
         age |-> NumTokens(Len(sanitize_training_text(FmtInput(LongQuestion))
                                   \o sanitize_training_text(FmtOutput(EigenAnswer))))]

ChatFixtures ==
    {Built(ZeroReplayBuffer, 0, 4),
     Built(Veterans, 3, 34),
     Built(Mixed(4), 4, 34),
     Built(Mixed(REPLAY_BUFFER_SIZE - 1), REPLAY_BUFFER_SIZE - 1, 34),
     Built(Mixed(REPLAY_BUFFER_SIZE), REPLAY_BUFFER_SIZE, 34),
     Built(Stubborn, REPLAY_BUFFER_SIZE, 34),
     AfterLongQuestion}

\* Requests are served while the two counters are within this distance of
\* their values at the start.
MaxConversations == 1

MaxSamples == 1

InitChat ==
    /\ g_model \in ChatModels
    /\ g_db_conn \in BOOLEAN
    /\ \E f \in ChatFixtures :
           /\ g_replay_buffer = f.buf
           /\ g_replay_count = f.count
           /\ g_conversation_count = f.conversations
           /\ g_training_samples = f.samples
           /\ g_model_age = f.age
           /\ chat = [ChatIdle EXCEPT !.samples0 = f.samples,
                                      !.conversations0 = f.conversations]
    /\ disk = InitialDisk
    /\ status = "up"
    /\ last = NoCall
    /\ origin = NoOrigin
    /\ gen = GenIdle
    /\ garble = GarbleIdle
    /\ attn = AttnIdle
    /\ Dormant

\* How a call that ended as how leaves the process.
StatusAfter(how) ==
    IF how = "ret" THEN "up" ELSE IF how = "crash" THEN "crashed" ELSE "ub"

\* Lines 3358-3382: the text the handler answers with and how it got it.
Answer(message, generated, openai_response) ==
    LET trained_bypass  == is_trained_prompt(message)
        garble_detected == IF trained_bypass # 0 THEN 0 ELSE is_garble_response(generated)
        openai_used == IF garble_detected # 0 /\ openai_response # <<>> THEN 1 ELSE 0
    IN  [trained_bypass |-> trained_bypass, garble_detected |-> garble_detected,
         openai_used |-> openai_used,
         clean |-> IF garble_detected = 0 THEN generated
                   ELSE IF openai_used = 1 THEN openai_response ELSE idk_response]

\* Lines 3267-3388: the message, the generated text and the text the
\* handler answers with.
ChatRespond(body, raw_response, openai_response) ==
    /\ status = "up"
    /\ chat.pc = "idle"
    /\ g_training_samples < chat.samples0 + MaxSamples
    /\ g_conversation_count < chat.conversations0 + MaxConversations
    /\ IF g_model.loaded = 0
           THEN UNCHANGED <<status, chat>>
       ELSE IF MissingTensor(g_model)
           THEN status' = "crashed" /\ UNCHANGED chat
       ELSE IF OutOfBounds(g_model)
           THEN status' = "ub" /\ UNCHANGED chat
       ELSE \E message \in {sanitize_input(ExtractMessage(body))},
               generated \in {CleanResponse(raw_response)} :
            \E a \in {Answer(message, generated, openai_response)} :
                /\ status' = "up"
                /\ chat' = [chat EXCEPT !.pc = "responded", !.message = message,
                                        !.generated = generated, !.clean = a.clean,
                                        !.trained_bypass = a.trained_bypass,
                                        !.garble_detected = a.garble_detected,
                                        !.openai_used = a.openai_used]
    /\ UNCHANGED <<g_model, g_model_age, g_training_samples, disk, last, origin, gen,
                   g_replay_buffer, g_replay_count, g_conversation_count, g_db_conn,
                   kernelVars>>

\* Lines 3390-3433: the conversation is stored, the answer is trained on
\* and, when it came from the fallback, put in the replay buffer.
ChatLearn(stored, pass) ==
    LET fmt_input  == FmtInput(chat.message)
        fmt_output == FmtOutput(chat.clean)
        train_lr   == IF chat.openai_used = 1 THEN 20 ELSE 10
        trains == /\ g_db_conn /\ chat.clean # <<>> /\ stored
                  /\ (chat.garble_detected = 0 \/ chat.openai_used = 1)
    IN  /\ status = "up"
        /\ chat.pc = "responded"
        /\ IF ~trains
               THEN /\ chat' = [chat EXCEPT !.pc = "learned",
                                            !.stored = g_db_conn /\ chat.clean # <<>> /\ stored,
                                            !.learn = NoLearn, !.added = NoAdd]
                    /\ UNCHANGED <<g_model, g_model_age, g_training_samples, status,
                                   g_replay_buffer, g_replay_count>>
               ELSE /\ Feasible(pass, TouchedWeights(g_model,
                                         StepIds(g_model, fmt_input, fmt_output)))
                    /\ \E r \in {native_train_step(g_model, g_model_age, g_training_samples,
                                                   fmt_input, fmt_output, train_lr, pass)} :
                       \E a \in {IF r.how = "ret" /\ r.ret = 0 /\ chat.openai_used = 1
                                     THEN replay_buffer_add(g_replay_buffer, g_replay_count,
                                                            chat.message, chat.clean, r.loss)
                                     ELSE [buf |-> g_replay_buffer, count |-> g_replay_count,
                                           slot |-> -1]} :
                           /\ g_model' = r.m
                           /\ g_model_age' = r.age
                           /\ g_training_samples' = r.samples
                           /\ status' = StatusAfter(r.how)
                           /\ g_replay_buffer' = a.buf
                           /\ g_replay_count' = a.count
                           /\ chat' = [chat EXCEPT
                                  !.pc = "learned",
                                  !.stored = TRUE,
                                  !.learn = [called |-> TRUE, output |-> fmt_output,
                                             ret |-> r.ret, loss |-> r.loss],
                                  !.added = IF a.slot >= 0
                                                THEN [called |-> TRUE,
                                                      question |-> chat.message,
                                                      answer |-> chat.clean,
                                                      loss |-> r.loss]
                                                ELSE NoAdd]
        /\ UNCHANGED <<disk, last, origin, gen, g_conversation_count, g_db_conn, kernelVars>>

\* Lines 3435-3477: the conversation is counted; every fifth one runs four
\* ladder steps and saves the model.
ChatLadder(pass, g) ==
    LET counted == g_db_conn /\ chat.clean # <<>>
        count   == g_conversation_count + 1
        path    == Live("model")
    IN  /\ status = "up"
        /\ chat.pc = "learned"
        /\ g_conversation_count' = IF counted THEN count ELSE g_conversation_count
        /\ IF ~(counted /\ count % 5 = 0)
               THEN UNCHANGED <<g_model, g_model_age, g_training_samples, disk, origin,
                               status>>
               ELSE \E l \in {LadderReplay(count, g_model, g_model_age,
                                            g_training_samples, pass)} :
                        /\ l.feasible
                        /\ g_model' = l.m
                        /\ g_model_age' = l.age
                        /\ g_training_samples' = l.samples
                        /\ IF l.how # "ret"
                               THEN status' = StatusAfter(l.how) /\ UNCHANGED <<disk, origin>>
                               ELSE \E s \in {save_model_weights(disk[path], l.m, g)} :
                                        /\ disk' = [disk EXCEPT ![path] = s.file]
                                        /\ origin' = IF s.how = "ret" /\ s.ret = 0
                                                         THEN [valid |-> TRUE,
                                                               m |-> AsRead(l.m, g)]
                                                     ELSE IF s.file = disk[path] THEN origin
                                                     ELSE NoOrigin
                                        /\ status' = StatusAfter(s.how)
        /\ chat' = [chat EXCEPT !.pc = "laddered"]
        /\ UNCHANGED <<last, gen, g_replay_buffer, g_replay_count, g_db_conn, kernelVars>>

\* Line 3480: replay_buffer_run.
ChatReplay(plan) ==
    /\ status = "up"
    /\ chat.pc = "laddered"
    /\ \E r \in {replay_buffer_run(g_replay_buffer, g_replay_count, g_model, g_model_age,
                                   g_training_samples, plan)} :
           /\ r.feasible
           /\ g_replay_buffer' = r.buf
           /\ g_model' = r.m
           /\ g_model_age' = r.age
           /\ g_training_samples' = r.samples
           /\ status' = StatusAfter(r.how)
           /\ chat' = [chat EXCEPT !.pc = "replayed", !.calls = r.calls]
    /\ UNCHANGED <<disk, last, origin, gen, g_replay_count, g_conversation_count,
                   g_db_conn, kernelVars>>

\* Lines 3482-3530: the JSON answer is built and returned.
ChatReturn ==
    /\ status = "up"
    /\ chat.pc = "replayed"
    /\ chat' = [ChatIdle EXCEPT !.samples0 = chat.samples0,
                                !.conversations0 = chat.conversations0]
    /\ UNCHANGED <<engineVars, g_replay_buffer, g_replay_count, g_conversation_count,
                   g_db_conn, kernelVars>>

NextChat ==
    \/ \E body \in Bodies, raw_response \in RawResponses,
          openai_response \in OpenAiResponses :
           ChatRespond(body, raw_response, openai_response)
    \/ \E stored \in BOOLEAN, pass \in LearnPasses : ChatLearn(stored, pass)
    \/ \E pass \in LadderPasses, g \in Garbage : ChatLadder(pass, g)
    \/ \E plan \in Plans : ChatReplay(plan)
    \/ ChatReturn

SpecChat == InitChat /\ [][NextChat]_vars

\* The same requests when the database is down, the model loaded has a
\* NaN embedding and the buffer holds a few entries: nothing is stored or
\* added, and the server never stops taking requests, each of which runs
\* to its end.
InitChatFair ==
    /\ InitChat
    /\ ~g_db_conn
    /\ g_model = load_model_weights(NanEmbFile, ZeroModel).m
    /\ g_replay_count < REPLAY_PASSES_PER_REQUEST

SpecChatFair ==
    /\ InitChatFair
    /\ [][NextChat]_vars
    /\ WF_vars(\E body \in Bodies, raw_response \in RawResponses,
                  openai_response \in OpenAiResponses :
                   ChatRespond(body, raw_response, openai_response))
    /\ WF_vars(\E stored \in BOOLEAN, pass \in LearnPasses : ChatLearn(stored, pass))
    /\ WF_vars(\E pass \in LadderPasses, g \in Garbage : ChatLadder(pass, g))
    /\ WF_vars(\E plan \in Plans : ChatReplay(plan))
    /\ WF_vars(ChatReturn)

(***************************************************************************)
(* Claims about the replay buffer and the chat flow.                       *)
(***************************************************************************)
\* The step of a request that called replay_buffer_add.
AddStep == chat.pc = "responded" /\ chat'.pc = "learned" /\ chat'.added.called

\* The question is in the buffer.
Present(question) ==
    \E i \in 0..(g_replay_count - 1) : g_replay_buffer[i].question = question

\* The lower of two finite losses.
LowerLoss(a, b) == IF Rank(b) < Rank(a) THEN b ELSE a

\* C11: replay add for a question already in the buffer leaves the number
\* of entries unchanged, sets that entry's last_loss to the minimum of its
\* previous last_loss and the new loss, increments its train_count by
\* exactly 1, and changes no other entry.
C11_ReAddKeepsLowerLoss ==
    [][(AddStep /\ Present(chat'.added.question)) =>
          /\ g_replay_count' = g_replay_count
          /\ \E i \in 0..(g_replay_count - 1) :
                 /\ g_replay_buffer[i].question = chat'.added.question
                 /\ g_replay_buffer'[i].last_loss =
                        LowerLoss(g_replay_buffer[i].last_loss, chat'.added.loss)
                 /\ g_replay_buffer'[i].train_count = g_replay_buffer[i].train_count + 1
                 /\ \A j \in (0..(REPLAY_BUFFER_SIZE - 1)) \ {i} :
                        g_replay_buffer'[j] = g_replay_buffer[j]]_vars

\* "Q2" was added again with a loss of 4 and its entry kept the loss of 1
\* it had.
C11_Witness ==
    /\ chat.pc = "learned" /\ chat.added.called
    /\ chat.added.question = Q(2) /\ chat.added.loss = Num(4)
    /\ g_replay_buffer[2].question = Q(2)
    /\ g_replay_buffer[2].last_loss = One
    /\ g_replay_buffer[2].train_count > 1

\* C12: replay add of a new question to a buffer of REPLAY_BUFFER_SIZE
\* entries overwrites exactly one entry, a converged one if any entry is
\* converged, and one of maximum train_count among the entries of the
\* victim's converged status; the other entries are unchanged and the new
\* entry starts with train_count 1 and not converged.
C12_EvictsConvergedMostTrained ==
    [][(AddStep /\ ~Present(chat'.added.question)
            /\ g_replay_count = REPLAY_BUFFER_SIZE) =>
          \E v \in 0..(REPLAY_BUFFER_SIZE - 1) :
              /\ g_replay_buffer'[v] # g_replay_buffer[v]
              /\ \A j \in (0..(REPLAY_BUFFER_SIZE - 1)) \ {v} :
                     g_replay_buffer'[j] = g_replay_buffer[j]
              /\ g_replay_buffer'[v].question
                     = SubSeq(chat'.added.question, 1, Min(Len(chat'.added.question), 511))
              /\ g_replay_buffer'[v].train_count = 1
              /\ g_replay_buffer'[v].converged = 0
              /\ (\E j \in 0..(REPLAY_BUFFER_SIZE - 1) : g_replay_buffer[j].converged # 0)
                     => g_replay_buffer[v].converged # 0
              /\ \A j \in 0..(REPLAY_BUFFER_SIZE - 1) :
                     (g_replay_buffer[j].converged # 0) = (g_replay_buffer[v].converged # 0)
                         => g_replay_buffer[j].train_count <= g_replay_buffer[v].train_count]_vars

\* "Q40" was added to a full buffer and took the place of an entry that is
\* not the first one.
C12_Witness ==
    /\ chat.pc = "learned" /\ chat.added.called
    /\ g_replay_count = REPLAY_BUFFER_SIZE
    /\ \E v \in 1..(REPLAY_BUFFER_SIZE - 2) :
           /\ g_replay_buffer[v].question = chat.added.question
           /\ g_replay_buffer[v].train_count = 1
    /\ g_replay_buffer[0].question = Q(0)

\* C13: after any sequence of replay add and replay run operations the
\* number of entries in the replay buffer is at most REPLAY_BUFFER_SIZE.
C13_CountWithinBuffer == g_replay_count >= 0 /\ g_replay_count <= REPLAY_BUFFER_SIZE

\* A request added a new question to a full buffer and ran the replay.
C13_Witness ==
    /\ chat.pc = "replayed" /\ chat.added.called
    /\ g_replay_count = REPLAY_BUFFER_SIZE
    /\ \E v \in 0..(REPLAY_BUFFER_SIZE - 2) :
           g_replay_buffer[v].question = chat.added.question
    /\ \E j \in 0..(REPLAY_BUFFER_SIZE - 1) : g_replay_buffer[j].question = Q(31)

\* C14: each invocation of replay run performs at most
\* REPLAY_PASSES_PER_REQUEST training steps, at most one per entry, and only
\* on entries not marked converged when they are trained.
C14_RunStepsCapped ==
    chat.pc = "replayed" =>
        /\ Len(chat.calls) <= REPLAY_PASSES_PER_REQUEST
        /\ \A j, k \in 1..Len(chat.calls) :
               chat.calls[j].slot = chat.calls[k].slot => j = k
        /\ \A k \in 1..Len(chat.calls) : chat.calls[k].converged = 0

\* The step of a request in which replay_buffer_run ran and returned.
RunStep == chat.pc = "laddered" /\ chat'.pc = "replayed" /\ status' = "up"

\* A step of this invocation on entry i returned 0 with a loss below the
\* target.
LowLossStep(i) ==
    \E k \in 1..Len(chat'.calls) :
        /\ chat'.calls[k].slot = i
        /\ chat'.calls[k].ret = 0
        /\ ~isnan(chat'.calls[k].loss)
        /\ Rank(chat'.calls[k].loss) < REPLAY_TARGET_LOSS

\* C15 as stated: when replay run returns, an entry is marked converged if
\* a step on it in that invocation produced a loss below REPLAY_TARGET_LOSS
\* or if its train_count has reached REPLAY_MAX_PASSES; an entry that was
\* not converged before is not marked in any other case.
C15_ConvergedAtReturn ==
    [][RunStep =>
          \A i \in 0..(g_replay_count - 1) :
              /\ (LowLossStep(i) \/ g_replay_buffer'[i].train_count >= REPLAY_MAX_PASSES)
                     => g_replay_buffer'[i].converged # 0
              /\ (g_replay_buffer[i].converged = 0 /\ g_replay_buffer'[i].converged # 0)
                     => (LowLossStep(i)
                             \/ g_replay_buffer'[i].train_count >= REPLAY_MAX_PASSES)]_vars

\* The scan of this invocation looked at entry i: some entry was not
\* converged at the start and fewer than REPLAY_PASSES_PER_REQUEST steps
\* on earlier entries returned 0.
Visited(i) ==
    /\ \E j \in 0..(g_replay_count - 1) : g_replay_buffer[j].converged = 0
    /\ Cardinality({k \in 1..Len(chat'.calls) :
                       chat'.calls[k].slot < i /\ chat'.calls[k].ret = 0})
           < REPLAY_PASSES_PER_REQUEST

\* C15, amended: when replay run returns, an entry is marked converged if a
\* step on it in that invocation produced a loss below REPLAY_TARGET_LOSS,
\* or if its train_count had reached REPLAY_MAX_PASSES before the invocation
\* and the scan visited it; an entry that was not converged before is not
\* marked in any other case.
C15_ConvergedWhenVisited ==
    [][RunStep =>
          \A i \in 0..(g_replay_count - 1) :
              /\ LowLossStep(i) => g_replay_buffer'[i].converged # 0
              /\ (g_replay_buffer[i].train_count >= REPLAY_MAX_PASSES /\ Visited(i))
                     => g_replay_buffer'[i].converged # 0
              /\ (g_replay_buffer[i].converged = 0 /\ g_replay_buffer'[i].converged # 0)
                     => (LowLossStep(i)
                             \/ g_replay_buffer[i].train_count >= REPLAY_MAX_PASSES)]_vars

\* One invocation took entry 0 to its 50th step with a loss of 4 and left
\* it unmarked, marked entry 1 for its 50 steps and entry 2 for its loss.
C15_Witness ==
    /\ chat.pc = "replayed" /\ status = "up"
    /\ Len(chat.calls) = 2
    /\ g_replay_buffer[0].train_count = REPLAY_MAX_PASSES
    /\ g_replay_buffer[0].converged = 0
    /\ g_replay_buffer[1].train_count = REPLAY_MAX_PASSES
    /\ g_replay_buffer[1].converged = 1
    /\ g_replay_buffer[2].last_loss = One
    /\ g_replay_buffer[2].converged = 1

\* C16: if replay run is invoked again and again and no entry is added,
\* every entry of the replay buffer eventually becomes converged.
C16_EveryEntryConverges ==
    <>(\A i \in 0..(g_replay_count - 1) : g_replay_buffer[i].converged # 0)

\* C17: in the chat flow the engine's own output is passed to
\* native_train_step as the completion only if is_garble_response returns
\* false for it.
C17_GarbleNeverTrained ==
    (chat.learn.called /\ chat.openai_used = 0) =>
        /\ chat.learn.output = FmtOutput(chat.generated)
        /\ is_garble_response(chat.generated) = 0
(***************************************************************************)
(* generate_response late in a call: the loop is entered and has already   *)
(* sampled 'a' LongStart times, or not at all, and max_tokens leaves        *)
(* LongTurns more turns.                                                    *)
(***************************************************************************)
LongStart == 16

LongTurns == 4

\* The locals after n turns that each sampled 'a'.
RECURSIVE Sampled(_, _, _)
Sampled(g, model, n) ==
    IF n = 0 THEN g ELSE Sampled(LoopTurn(g, model, 97, FALSE), model, n - 1)

LongModels ==
    {load_model_weights(GenFile(msl, TRUE), ZeroModel).m : msl \in 1..MaxSeqLen}

InitLong ==
    /\ g_model \in LongModels
    /\ g_model_age = 0
    /\ g_training_samples = 0
    /\ disk = InitialDisk
    /\ status = "up"
    /\ last = NoCall
    /\ origin = NoOrigin
    /\ \E prompt_len \in 0..MaxPromptLen, n \in {0, LongStart} :
           gen = Sampled(Entered(g_model, prompt_len, n + LongTurns), g_model, n)
    /\ Quiet

NextLong ==
    \/ \E next_token \in GenTokens, peek_low \in BOOLEAN, fault \in BOOLEAN :
           GenStep(next_token, peek_low, fault)
    \/ GenExit

SpecLong == InitLong /\ [][NextLong]_vars

\* The turn sampled a sentence terminator and the call went on or returned.
TerminatorTurn ==
    /\ gen.pc = "loop" /\ gen'.pc \in {"loop", "returned"}
    /\ Len(gen'.sampled) = Len(gen.sampled) + 1
    /\ IsSentenceEnd(gen'.sampled[Len(gen'.sampled)])

\* The length of the output from the character after the previous
\* terminator to its last character.
LastSegment(output) ==
    LET ends == {j \in 1..(Len(output) - 1) : IsSentenceEnd(output[j])}
    IN  Len(output) - (IF ends = {} THEN 0 ELSE CHOOSE j \in ends : \A k \in ends : k <= j)

\* C23 as stated: after a sentence terminator is emitted, generation stops
\* early exactly when at least 3 terminators have been produced, or the
\* segment since the previous terminator is at least 20 characters long and
\* the lookahead probability of a space is below 0.3; otherwise it goes on.
C23_StopRule ==
    [][TerminatorTurn =>
          ((gen'.pc = "returned") <=>
              \/ SentCount(gen'.output) >= 3
              \/ (LastSegment(gen'.output) >= 20 /\ gen'.space_low))]_vars

\* C23, amended: after a sentence terminator is emitted, generation stops
\* early exactly when the output is more than 3 characters long and either
\* at least 3 terminators have been produced, or the whole output is at most
\* 18 characters long, or the lookahead probability of a space is below
\* 0.3; otherwise it goes on.
C23_StopRuleOnOutput ==
    [][TerminatorTurn =>
          ((gen'.pc = "returned") <=>
              /\ Len(gen'.output) > 3
              /\ \/ SentCount(gen'.output) >= 3
                 \/ Len(gen'.output) <= 18
                 \/ gen'.space_low)]_vars

\* A call went on after a terminator at its 19th character because the
\* lookahead gave a space, and stopped at the next terminator because it
\* did not.
C23_Witness ==
    /\ gen.pc = "returned"
    /\ Len(gen.output) = 20
    /\ gen.output[19] = 46 /\ gen.output[20] = 46
    /\ gen.peeked /\ gen.space_low

\* C24: at every sampling step the context passed to the forward pass is
\* the trailing min(T, max_seq_len) tokens of the sequence S of length T
\* made of the prompt seed and every token sampled before the step.
C24_ContextTrailsSampled ==
    (gen.pc \in {"loop", "returned"} /\ Len(gen.sampled) > 0) =>
        LET S == gen.seed \o SubSeq(gen.sampled, 1, Len(gen.sampled) - 1)
            T == Len(S)
        IN  gen.ctx = SubSeq(S, T - Min(T, g_model.config.max_seq_len) + 1, T)

(***************************************************************************)
(* native_train_step position by position (eigenscript.c:2427-2560): the   *)
(* window of each position and the cells of the TrainingCache.  A cell     *)
(* holds the mark of what wrote it last: calloc or memset (Zeroed), or the *)
(* cached forward pass of position t of call n (<<n, t>>).                  *)
(***************************************************************************)
Zeroed == <<0, -1>>

\* A read outside the block.
Outside == <<-1, -1>>

CacheBuffers == {"layer_inputs", "norm1_outputs", "norm2_outputs", "attn_probs",
                 "ffn_pre_act", "post_attn_x", "final_x", "ln1_x_norm", "ln1_std",
                 "ln2_x_norm", "ln2_std"}

\* Lines 2429-2439: the element count of each block for max_ctx positions;
\* lines 2447-2456: the count each memset clears for ctx_len positions
\* (final_x is not cleared).
CacheCount(b, c, len) ==
    CASE b = "attn_probs" -> c.n_layers * len * len
      [] b = "ffn_pre_act" -> c.n_layers * len * c.d_ff
      [] b = "final_x" -> len * c.d_model
      [] b \in {"ln1_std", "ln2_std"} -> c.n_layers * len
      [] OTHER -> c.n_layers * len * c.d_model

\* The offsets native_forward_with_cache writes for seq_len positions
\* (lines 2275-2343).
ForwardWrites(b, c, seq_len) ==
    CASE b = "attn_probs" ->
             {l * seq_len * seq_len + k : l \in 0..(c.n_layers - 1),
                                          k \in 0..(seq_len * seq_len - 1)}
      [] b = "ffn_pre_act" ->
             {l * seq_len * c.d_ff + k : l \in 0..(c.n_layers - 1),
                                         k \in 0..(seq_len * c.d_ff - 1)}
      [] b = "final_x" -> 0..(seq_len * c.d_model - 1)
      [] b \in {"ln1_std", "ln2_std"} ->
             {l * seq_len + i : l \in 0..(c.n_layers - 1), i \in 0..(seq_len - 1)}
      [] OTHER ->
             {l * seq_len * c.d_model + k : l \in 0..(c.n_layers - 1),
                                            k \in 0..(seq_len * c.d_model - 1)}

\* The offsets the backward pass of a position reads (lines 2472-2545).
BackwardReads(b, c, ctx_len) ==
    CASE b = "final_x" -> {(ctx_len - 1) * c.d_model + k : k \in 0..(c.d_model - 1)}
      [] b \in {"layer_inputs", "post_attn_x"} -> {}
      [] OTHER -> ForwardWrites(b, c, ctx_len)

CtxLenWhole(t, max_seq_len) == t + 1

\* if (ctx_len > max_seq_len) ctx_len = max_seq_len;
CtxLen(t, max_seq_len) == IF t + 1 > max_seq_len THEN max_seq_len ELSE t + 1

\* The cell at a 0-based offset of a block.
CellAt(block, off) == IF off >= 0 /\ off < Len(block) THEN block[off + 1] ELSE Outside

\* Texts of 2 to 4 tokens.
WindowTexts == {<<1, 2>>, <<3, 1, 2>>, <<2, 0, 3, 1>>}

MaxWindowSeqLen == 3

MaxWindowLayers == 2

MaxCalls == 2

\* A model file of vocab_size 4, d_model 1 and d_ff 1 whose tensors are
\* all there, holding no numbers: load fills them with 0.0.
WindowFile(max_seq_len, n_layers) ==
    ObjectFile(<< Entry("config",
                        << <<"vocab_size", 4>>, <<"d_model", 1>>, <<"n_heads", 1>>,
                           <<"n_layers", n_layers>>, <<"d_ff", 1>>,
                           <<"max_seq_len", max_seq_len>> >>, <<>>, <<>>),
                  Entry("token_embeddings", <<>>, <<>>, <<>>),
                  Entry("output_proj", <<>>, <<>>, <<>>),
                  Entry("layers", <<>>, <<>>,
                        [l \in 1..n_layers |->
                            [k \in 1..Len(LayerKeys) |->
                                [key |-> LayerKeys[k], toks |-> <<>>]]]) >>)

InitWindow ==
    /\ \E max_seq_len \in 0..MaxWindowSeqLen, n_layers \in 1..MaxWindowLayers :
           g_model = load_model_weights(WindowFile(max_seq_len, n_layers), ZeroModel).m
    /\ g_model_age = 0
    /\ g_training_samples = 0
    /\ disk = InitialDisk
    /\ status = "up"
    /\ last = NoCall
    /\ origin = NoOrigin
    /\ gen = GenIdle
    /\ ChatAtRest
    /\ garble = GarbleIdle
    /\ attn = AttnIdle
    /\ train = TrainIdle
    /\ eigen = EigenIdle
    /\ serve = ServeIdle

windowRest == <<g_model, g_model_age, g_training_samples, disk, last, origin, gen,
                chatVars, garble, attn, eigen, serve>>

\* Lines 2387-2439: the text is tokenized and the cache is allocated.
WindowEnter(text) ==
    LET c == g_model.config
        token_ids == TokenIds(text, c.vocab_size)
        full_len == Len(token_ids)
        max_ctx == Min(c.max_seq_len, full_len)
    IN  /\ status = "up"
        /\ train.pc = "idle"
        /\ train.calls < MaxCalls
        /\ g_model.loaded = 1 /\ full_len >= 2
        /\ train' = [TrainIdle EXCEPT
                        !.pc = "forward", !.calls = train.calls + 1,
                        !.token_ids = token_ids, !.max_ctx = max_ctx,
                        !.cache = [b \in CacheBuffers |->
                                      [i \in 1..CacheCount(b, c, max_ctx) |-> Zeroed]]]
        /\ UNCHANGED <<status, windowRest>>

\* Lines 2442-2459: the window of position t, the memsets and the cached
\* forward pass on it.
WindowForward ==
    LET c == g_model.config
        t == train.t
        ctx_len == CtxLen(t, c.max_seq_len)
        ctx_start == (t + 1) - ctx_len
    IN  /\ status = "up"
        /\ train.pc = "forward"
        /\ train' = [train EXCEPT
                        !.pc = "backward",
                        !.ctx_len = ctx_len,
                        !.ctx_start = ctx_start,
                        !.target_id = train.token_ids[t + 2],
                        !.ctx = SubSeq(train.token_ids, ctx_start + 1, ctx_start + ctx_len),
                        !.reads = {},
                        !.cache = [b \in CacheBuffers |->
                            [i \in 1..Len(train.cache[b]) |->
                                IF (i - 1) \in ForwardWrites(b, c, ctx_len)
                                    THEN <<train.calls, t>>
                                ELSE IF b # "final_x" /\ i <= CacheCount(b, c, ctx_len)
                                    THEN Zeroed
                                ELSE train.cache[b][i]]]]
        /\ UNCHANGED <<status, windowRest>>

\* Lines 2461-2559: the loss and the backward pass of position t.  A read
\* outside a block yields what the heap holds there and the write of line
\* 2485 lands before d_x: the call goes on, or the process ends (fault).
WindowBackward(fault) ==
    LET c == g_model.config
        seen == UNION {{[buffer |-> b, offset |-> off, t |-> train.t,
                         cell |-> CellAt(train.cache[b], off)] :
                            off \in BackwardReads(b, c, train.ctx_len)} :
                       b \in CacheBuffers}
    IN  /\ status = "up"
        /\ train.pc = "backward"
        /\ fault => train.ctx_len < 1
        /\ IF fault
               THEN /\ status' = "ub"
                    /\ train' = [train EXCEPT !.pc = "ub", !.reads = seen]
               ELSE /\ status' = "up"
                    /\ train' = [train EXCEPT
                                    !.pc = IF train.t + 1 < Len(train.token_ids) - 1
                                               THEN "forward" ELSE "done",
                                    !.t = @ + 1,
                                    !.reads = seen]
        /\ UNCHANGED windowRest

\* Lines 2562-2656: the guards, the update and the frees; the call returns.
WindowLeave ==
    /\ status = "up"
    /\ train.pc = "done"
    /\ train' = [TrainIdle EXCEPT !.calls = train.calls]
    /\ UNCHANGED <<status, windowRest>>

NextWindow ==
    \/ \E text \in WindowTexts : WindowEnter(text)
    \/ WindowForward
    \/ \E fault \in BOOLEAN : WindowBackward(fault)
    \/ WindowLeave

SpecWindow == InitWindow /\ [][NextWindow]_vars

\* C21: in native_train_step, for every position t from 0 to L-2 of a
\* sequence of L tokens, the context given to the cached forward pass is the
\* tokens at indices max(0, t+1-max_seq_len) .. t, never more than
\* max_seq_len of them, and the target is the token at index t+1; the call
\* ends after position L-2.
C21_SlidingWindow ==
    LET L == Len(train.token_ids)
        t == train.t
        first == IF t + 1 - g_model.config.max_seq_len > 0
                     THEN t + 1 - g_model.config.max_seq_len ELSE 0
    IN  /\ train.pc \in {"forward", "backward"} => t \in 0..(L - 2)
        /\ train.pc = "done" => t = L - 1
        /\ train.pc = "backward" =>
               /\ train.ctx_start = first
               /\ train.ctx = SubSeq(train.token_ids, first + 1, t + 1)
               /\ Len(train.ctx) = train.ctx_len
               /\ train.ctx_len <= g_model.config.max_seq_len
               /\ train.target_id = train.token_ids[t + 2]

\* A position whose window has slid: it starts after the first token and
\* holds max_seq_len tokens.
C21_Witness ==
    /\ train.pc = "backward"
    /\ train.ctx_start > 0
    /\ train.ctx_len = g_model.config.max_seq_len
    /\ train.ctx_len >= 2

\* C22: every TrainingCache cell the backward pass of position t reads was
\* written by the cached forward pass of position t of the same call, and
\* lies within the allocated block.
C22_BackwardReadsOwnForward ==
    \A r \in train.reads : r.cell = <<train.calls, r.t>>

\* C29: every forward pass started by generate_response or by
\* native_train_step receives a context of at least 1 token, for every
\* prompt and every max_seq_len >= 1.
C29_ForwardHasContext ==
    g_model.config.max_seq_len >= 1 =>
        /\ gen.forwards > 0 => Len(gen.ctx) >= 1
        /\ gen.peeked => Len(gen.peek_ctx) >= 1
        /\ train.pc = "backward" => train.ctx_len >= 1

\* C25: whenever the chat flow trains successfully on the formatted
\* question/answer pair, a ReplayEntry for that question is in the replay
\* buffer when the request completes.
C25_TrainedIsBuffered ==
    (chat.pc \in {"learned", "laddered", "replayed"} /\ chat.learn.called
        /\ chat.learn.ret = 0) =>
        \E i \in 0..(g_replay_count - 1) :
            g_replay_buffer[i].question
                = SubSeq(chat.message, 1, Min(Len(chat.message), 511))

\* C25, amended: whenever the chat flow trains successfully on an answer
\* that came from the external fallback, an entry holding the first 511
\* characters of the question is in the replay buffer when the request
\* completes.
C25_TrainedFallbackIsBuffered ==
    (chat.pc \in {"learned", "laddered", "replayed"} /\ chat.learn.called
        /\ chat.learn.ret = 0 /\ chat.openai_used = 1) =>
        \E i \in 0..(g_replay_count - 1) :
            g_replay_buffer[i].question
                = SubSeq(chat.message, 1, Min(Len(chat.message), 511))

\* A request for the long question, answered by the fallback and trained
\* on, is about to return.
C25_Witness ==
    /\ chat.pc = "replayed"
    /\ chat.learn.called /\ chat.learn.ret = 0
    /\ chat.openai_used = 1
    /\ Len(chat.message) > 511

\* C28: in every reachable state of the replay buffer no two entries hold
\* the same question, questions longer than 511 characters included.
C28_QuestionsDistinct ==
    \A i, j \in 0..(g_replay_count - 1) :
        i # j => g_replay_buffer[i].question # g_replay_buffer[j].question

(***************************************************************************)
(* An EigenValue on the stack (eigenvalue.c): eigen_init, eigen_update and *)
(* the three predicates over its history ring.  written is the set of      *)
(* history slots stored since eigen_init; read is the set of slots the     *)
(* last predicate call loaded.                                             *)
(***************************************************************************)
MAX_HISTORY == 100

DIVERGENCE_THRESHOLD == 1000

OSCILLATION_CYCLES == 3

\* A small value and one beyond DIVERGENCE_THRESHOLD.
EigenValues == {0, 2000}

\* eigen_update calls followed after an eigen_init: enough for the ring to
\* wrap.
MaxUpdates == 101

\* (ev->history_index - k + MAX_HISTORY) % MAX_HISTORY
Slot(history_index, k) == (history_index - k + MAX_HISTORY) % MAX_HISTORY

\* The slots the loop of eigen_check_converged loads: i = 0..4.
ConvergedSlots(history_index) ==
    UNION {{Slot(history_index, i), Slot(history_index, i + 1)} : i \in 0..4}

\* The slots the loops of eigen_check_diverging (n = 5) and
\* eigen_check_oscillating (n = 10) load: i = 1 .. min(n, history_size) - 1.
GradientSlots(history_index, history_size, n) ==
    UNION {{Slot(history_index, i - 1), Slot(history_index, i)} :
              i \in 1..(Min(n, history_size) - 1)}

InitEigen == EngineAtRest /\ Quiet

eigenRest == <<engineVars, chatVars, garble, attn, train, serve>>

\* eigen_init(ev, initial_value): history[1..99] keeps what the stack held.
EigenInit(initial_value) ==
    /\ eigen' = [EigenIdle EXCEPT !.pc = "live", !.value = initial_value,
                                  !.history_size = 1, !.history_index = 0,
                                  !.written = {0}]
    /\ UNCHANGED eigenRest

\* eigen_update(ev, new_value)
EigenUpdate(new_value) ==
    LET history_index == (eigen.history_index + 1) % MAX_HISTORY
    IN  /\ eigen.pc = "live"
        /\ eigen.iteration < MaxUpdates
        /\ eigen' = [eigen EXCEPT
                        !.value = new_value,
                        !.history_index = history_index,
                        !.written = @ \cup {history_index},
                        !.history_size = IF @ < MAX_HISTORY THEN @ + 1 ELSE @,
                        !.iteration = @ + 1,
                        !.check = "none", !.read = {}]
        /\ UNCHANGED eigenRest

\* eigen_check_converged(ev)
EigenCheckConverged ==
    /\ eigen.pc = "live"
    /\ eigen' = [eigen EXCEPT
                    !.check = "converged",
                    !.read = IF eigen.history_size < 5 THEN {}
                             ELSE ConvergedSlots(eigen.history_index)]
    /\ UNCHANGED eigenRest

\* eigen_check_diverging(ev)
EigenCheckDiverging ==
    /\ eigen.pc = "live"
    /\ eigen' = [eigen EXCEPT
                    !.check = "diverging",
                    !.read = IF eigen.history_size < 3 THEN {}
                             ELSE IF eigen.value > DIVERGENCE_THRESHOLD THEN {}
                             ELSE GradientSlots(eigen.history_index,
                                                eigen.history_size, 5)]
    /\ UNCHANGED eigenRest

\* eigen_check_oscillating(ev)
EigenCheckOscillating ==
    /\ eigen.pc = "live"
    /\ eigen' = [eigen EXCEPT
                    !.check = "oscillating",
                    !.read = IF eigen.history_size < OSCILLATION_CYCLES * 2 THEN {}
                             ELSE GradientSlots(eigen.history_index,
                                                eigen.history_size, 10)]
    /\ UNCHANGED eigenRest

NextEigen ==
    \/ \E initial_value \in EigenValues : EigenInit(initial_value)
    \/ \E new_value \in EigenValues : EigenUpdate(new_value)
    \/ EigenCheckConverged
    \/ EigenCheckDiverging
    \/ EigenCheckOscillating

SpecEigen == InitEigen /\ [][NextEigen]_vars

\* C26: for an EigenValue initialised with eigen_init and updated any number
\* of times, none of eigen_check_converged, eigen_check_diverging and
\* eigen_check_oscillating reads a history slot that has not been written
\* since the initialisation.
C26_ReadsOnlyWritten == eigen.read \subseteq eigen.written

(***************************************************************************)
(* The startup handoff (eigenscript.c:10-42, 1384-1434, 4614-4688): the    *)
(* main thread runs the script, which may bind the port early and start    *)
(* the health thread, and then serves; clients connect when they like.     *)
(* A connection is "talker" (its request arrives), "silent" (it sends      *)
(* nothing), "closed" (its peer is gone) or "wake" (main's own, closed at   *)
(* once).  backlog is the accept queue of the early socket, late_backlog   *)
(* that of the socket http_serve_blocking binds itself; on_model is the    *)
(* set of threads that have run code touching g_model.                     *)
(***************************************************************************)
\* What socket() can return in builtin_http_early_bind: 0 when the process
\* was started with descriptor 0 closed, else a higher descriptor.
EarlyFds == {0, 3}

ClientKinds == {"talker", "silent"}

MaxClients == 2

MaxHandled == 2

InitServe == EngineAtRest /\ Quiet

serveRest == <<engineVars, chatVars, garble, attn, train, eigen>>

\* builtin_http_early_bind where socket, bind and listen succeed (a failure
\* returns "error" and changes nothing): the descriptor is recorded and the
\* health thread is started, unless pthread_create fails.
EarlyBind(server_fd, created) ==
    /\ serve.main = "script"
    /\ ~serve.early
    /\ serve' = [serve EXCEPT
                    !.early = TRUE,
                    !.early_bind_fd = server_fd,
                    !.g_health_thread_active = IF created THEN 1 ELSE 0,
                    !.health = IF created THEN "test" ELSE "none"]
    /\ UNCHANGED serveRest

\* http_serve_blocking up to the wake-up connection (lines 4617-4619) or,
\* without a recorded descriptor, its own socket, bind and listen (4636-
\* 4661), which return when bind or listen fails.
ServeStart(bound) ==
    /\ serve.main = "script"
    /\ IF serve.early_bind_fd > 0
           THEN serve' = [serve EXCEPT
                             !.g_init_complete = 1,
                             !.main = IF serve.g_health_thread_active # 0
                                          THEN "wake" ELSE "accept"]
           ELSE serve' = [serve EXCEPT
                             !.late = bound,
                             !.main = IF bound THEN "accept" ELSE "returned"]
    /\ UNCHANGED serveRest

\* Lines 4620-4628: socket, connect to the loopback port, close.  The
\* connection lands in the early socket's queue, or is not made (socket or
\* connect fails, or the port served is not the port bound early).
MainWake(made) ==
    /\ serve.main = "wake"
    /\ serve' = [serve EXCEPT
                    !.main = "join",
                    !.backlog = IF made THEN Append(@, "wake") ELSE @]
    /\ UNCHANGED serveRest

\* Lines 4630-4634: pthread_join returns once the health thread has
\* returned.
MainJoin ==
    /\ serve.main = "join"
    /\ serve.health = "exited"
    /\ serve' = [serve EXCEPT !.main = "accept", !.g_health_thread_active = 0]
    /\ UNCHANGED serveRest

\* The socket the main loop accepts on.
ServesEarly == serve.early_bind_fd > 0

\* Lines 4671-4686: accept on server_fd, set the timeouts, enter
\* handle_request.
MainAccept ==
    /\ serve.main = "accept"
    /\ serve.handled < MaxHandled
    /\ IF ServesEarly
           THEN /\ serve.backlog # <<>>
                /\ serve' = [serve EXCEPT !.main = "handle", !.backlog = Tail(@),
                                          !.on_model = @ \cup {"main"}]
           ELSE /\ serve.late_backlog # <<>>
                /\ serve' = [serve EXCEPT !.main = "handle", !.late_backlog = Tail(@),
                                          !.on_model = @ \cup {"main"}]
    /\ UNCHANGED serveRest

\* handle_request returns (a receive on a silent connection times out
\* after 10 s).
MainHandle ==
    /\ serve.main = "handle"
    /\ serve' = [serve EXCEPT !.main = "accept", !.handled = @ + 1]
    /\ UNCHANGED serveRest

\* health_thread, line 20: while (!g_init_complete)
HealthTest ==
    /\ serve.health = "test"
    /\ serve' = [serve EXCEPT
                    !.health = IF serve.g_init_complete # 0 THEN "exited" ELSE "accept"]
    /\ UNCHANGED serveRest

\* Line 23: accept returns a queued connection.
HealthAccept ==
    /\ serve.health = "accept"
    /\ serve.backlog # <<>>
    /\ serve' = [serve EXCEPT !.health = "check", !.conn = Head(serve.backlog),
                              !.backlog = Tail(@)]
    /\ UNCHANGED serveRest

\* Lines 24-28: accept fails and the thread leaves its loop.
HealthAcceptFails ==
    /\ serve.health = "accept"
    /\ serve' = [serve EXCEPT !.health = "exited"]
    /\ UNCHANGED serveRest

\* Line 29: if (g_init_complete) { close(conn); break; }
HealthCheck ==
    /\ serve.health = "check"
    /\ serve' = [serve EXCEPT
                    !.health = IF serve.g_init_complete # 0 THEN "exited" ELSE "recv",
                    !.conn = IF serve.g_init_complete # 0 THEN "none" ELSE @]
    /\ UNCHANGED serveRest

\* Lines 31-37: recv, which has no timeout and returns when data arrives or
\* the peer has closed; then send and close.
HealthRecv ==
    /\ serve.health = "recv"
    /\ serve.conn # "silent"
    /\ serve' = [serve EXCEPT !.health = "test", !.conn = "none"]
    /\ UNCHANGED serveRest

\* A client connects to the port: its connection is queued on one of the
\* sockets listening there.
ClientConnect(kind, socket) ==
    /\ serve.clients < MaxClients
    /\ IF socket = "early" THEN serve.early ELSE serve.late
    /\ serve' = [serve EXCEPT
                    !.clients = @ + 1,
                    !.backlog = IF socket = "early" THEN Append(@, kind) ELSE @,
                    !.late_backlog = IF socket = "late" THEN Append(@, kind) ELSE @]
    /\ UNCHANGED serveRest

\* The silent client the health thread is receiving from closes its end.
ClientHangup ==
    /\ serve.conn = "silent"
    /\ serve' = [serve EXCEPT !.conn = "closed"]
    /\ UNCHANGED serveRest

MainStep ==
    \/ \E made \in BOOLEAN : MainWake(made)
    \/ MainJoin
    \/ MainAccept
    \/ MainHandle

HealthStep ==
    \/ HealthTest
    \/ HealthAccept
    \/ HealthCheck
    \/ HealthRecv

NextServe ==
    \/ \E server_fd \in EarlyFds, created \in BOOLEAN : EarlyBind(server_fd, created)
    \/ \E bound \in BOOLEAN : ServeStart(bound)
    \/ MainStep
    \/ HealthStep
    \/ HealthAcceptFails
    \/ \E kind \in ClientKinds, socket \in {"early", "late"} : ClientConnect(kind, socket)
    \/ ClientHangup

SpecServe == InitServe /\ [][NextServe]_vars

\* Both threads are scheduled: a step of either that stays possible is
\* taken.  Nothing obliges the script to serve, a client to connect or hang
\* up, or accept to fail.
SpecServeFair ==
    /\ InitServe
    /\ [][NextServe]_vars
    /\ WF_vars(MainStep)
    /\ WF_vars(HealthStep)

\* C27: no two threads access the Model concurrently: the health thread
\* never reads or writes it, and the main loop handles a request only after
\* the health thread has terminated.
C27_MainHandlesAlone ==
    /\ "health" \notin serve.on_model
    /\ serve.main = "handle" => serve.health \in {"none", "exited"}

\* C30: once http_serve_blocking has set g_init_complete, the health thread
\* exits, the join returns and the main accept loop is reached, whatever the
\* wake-up connection and the clients do.
C30_HandoffTerminates ==
    (serve.g_init_complete = 1) ~> (serve.main \in {"accept", "handle"})

====
